---- MODULE Spec2Model ----
(***************************************************************************)
(* The Markdown worklog merge engine of seev/markdown_tools.py:            *)
(* read_date_entry, merge_date_sections, append_to_markdown and their      *)
(* deduplication helpers.  Text is modelled as TLA+ strings, handled one   *)
(* character at a time with Len, SubSeq and \o, so that splitting,         *)
(* stripping, pattern matching and joining are computed as Python does.    *)
(***************************************************************************)
EXTENDS Integers, Sequences, FiniteSets, TLC

VARIABLES fileExists, fileText, preExists, preText, call, res, ncalls,
          mode, fnIn, fnOut, dirExists, preDir, touched, proc, order

vars == <<fileExists, fileText, preExists, preText, call, res, ncalls,
          mode, fnIn, fnOut, dirExists, preDir, touched, proc, order>>

(***************************************************************************)
(* Python str primitives.                                                  *)
(***************************************************************************)

\* The i-th character of s, as a string of length 1.
CharAt(s, i) == IF i >= 1 /\ i <= Len(s) THEN SubSeq(s, i, i) ELSE ""

\* s[a-1:b] with Python's clamping of the bounds.
Slice(s, a, b) ==
  SubSeq(s, IF a < 1 THEN 1 ELSE a, IF b > Len(s) THEN Len(s) ELSE b)

\* str.isspace() for one character (what str.strip, str.split and \s use).
IsSpace(c) == c \in {" ", "\t", "\n", "\r", "\f"}

\* str.lower(), letter by letter.
LowerOf ==
  [A |-> "a", B |-> "b", C |-> "c", D |-> "d", E |-> "e", F |-> "f", G |-> "g",
   H |-> "h", I |-> "i", J |-> "j", K |-> "k", L |-> "l", M |-> "m", N |-> "n",
   O |-> "o", P |-> "p", Q |-> "q", R |-> "r", S |-> "s", T |-> "t", U |-> "u",
   V |-> "v", W |-> "w", X |-> "x", Y |-> "y", Z |-> "z"]

\* str.lower() for one character.
LowerChar(c) == IF c \in DOMAIN LowerOf THEN LowerOf[c] ELSE c

\* The least and the greatest element of a non-empty set of integers.
Min(S) == CHOOSE i \in S : \A j \in S : i <= j

\* s.lower(): the characters of s[lo..hi], lowered, halving the range so that
\* long texts do not nest deeply.
Lower(s) ==
  LET RECURSIVE Cat(_, _)
      Cat(lo, hi) ==
        IF lo > hi THEN ""
        ELSE IF lo = hi THEN LowerChar(CharAt(s, lo))
        ELSE Cat(lo, (lo + hi) \div 2) \o Cat((lo + hi) \div 2 + 1, hi)
  IN  Cat(1, Len(s))

\* The index of the first character of s[i..] that is not whitespace, or
\* Len(s) + 1.
RECURSIVE FirstNonSpace(_, _)
FirstNonSpace(s, i) ==
  IF i <= Len(s) /\ IsSpace(CharAt(s, i)) THEN FirstNonSpace(s, i + 1) ELSE i

\* The index of the last character of s[1..i] that is not whitespace, or 0.
RECURSIVE LastNonSpace(_, _)
LastNonSpace(s, i) ==
  IF i >= 1 /\ IsSpace(CharAt(s, i)) THEN LastNonSpace(s, i - 1) ELSE i

LStrip(s) == SubSeq(s, FirstNonSpace(s, 1), Len(s))

RStrip(s) == SubSeq(s, 1, LastNonSpace(s, Len(s)))

Strip(s) == LStrip(RStrip(s))

StartsWith(s, p) == Len(s) >= Len(p) /\ SubSeq(s, 1, Len(p)) = p

EndsWith(s, p) == Len(s) >= Len(p) /\ SubSeq(s, Len(s) - Len(p) + 1, Len(s)) = p

\* s[n:]
DropFirst(s, n) == SubSeq(s, n + 1, Len(s))

\* s.split("\n"): always at least one element.  newlines is the set of the
\* positions of "\n" in s, start the position the next line starts at.
RECURSIVE SplitFrom(_, _, _)
SplitFrom(s, start, newlines) ==
  LET ahead == {i \in newlines : i >= start} IN
  IF ahead = {} THEN <<SubSeq(s, start, Len(s))>>
  ELSE <<SubSeq(s, start, Min(ahead) - 1)>> \o SplitFrom(s, Min(ahead) + 1, newlines)

SplitLines(s) == SplitFrom(s, 1, {i \in 1..Len(s) : CharAt(s, i) = "\n"})

\* "\n".join(lines)
RECURSIVE JoinLines(_)
JoinLines(lines) ==
  IF lines = <<>> THEN ""
  ELSE IF Len(lines) = 1 THEN lines[1]
  ELSE lines[1] \o "\n" \o JoinLines(Tail(lines))

\* NormalizeNewlines without the second replace: a lone "\r" stays.
NormalizeCRLFOnly(s) ==
  LET Piece(i) ==
        IF CharAt(s, i) = "\r" /\ CharAt(s, i + 1) = "\n" THEN "" ELSE CharAt(s, i)
      RECURSIVE Cat(_, _)
      Cat(lo, hi) ==
        IF lo > hi THEN ""
        ELSE IF lo = hi THEN Piece(lo)
        ELSE Cat(lo, (lo + hi) \div 2) \o Cat((lo + hi) \div 2 + 1, hi)
  IN  Cat(1, Len(s))

\* s.replace("\r\n", "\n").replace("\r", "\n"): every "\r" becomes "\n" and
\* a "\n" that follows a "\r" goes with it.  The range is halved so that long
\* texts do not nest deeply.
NormalizeNewlines(s) ==
  LET Piece(i) ==
        IF CharAt(s, i) = "\r" THEN "\n"
        ELSE IF CharAt(s, i) = "\n" /\ CharAt(s, i - 1) = "\r" THEN ""
        ELSE CharAt(s, i)
      RECURSIVE Cat(_, _)
      Cat(lo, hi) ==
        IF lo > hi THEN ""
        ELSE IF lo = hi THEN Piece(lo)
        ELSE Cat(lo, (lo + hi) \div 2) \o Cat((lo + hi) \div 2 + 1, hi)
  IN  IF \A i \in 1..Len(s) : CharAt(s, i) # "\r" THEN s ELSE Cat(1, Len(s))

\* set(s)
CharSet(s) == {CharAt(s, i) : i \in 1..Len(s)}

\* The length of the run of spaces starting at position i of s (regex \s*).
RECURSIVE SpaceRun(_, _)
SpaceRun(s, i) ==
  IF i <= Len(s) /\ IsSpace(CharAt(s, i)) THEN 1 + SpaceRun(s, i + 1) ELSE 0

\* FindHeading comparing the line as it is, not stripped.
RECURSIVE FindHeadingExact(_, _, _)
FindHeadingExact(lines, heading, i) ==
  IF i > Len(lines) THEN 0
  ELSE IF lines[i] = heading THEN i
  ELSE FindHeadingExact(lines, heading, i + 1)

\* The index of the first i with lines[i].strip() = heading, or 0 (None).
RECURSIVE FindHeading(_, _, _)
FindHeading(lines, heading, i) ==
  IF i > Len(lines) THEN 0
  ELSE IF Strip(lines[i]) = heading THEN i
  ELSE FindHeading(lines, heading, i + 1)

(***************************************************************************)
(* Similarity and deduplication primitives.                                *)
(***************************************************************************)

\* The bounds {7,40} of the hash patterns of _extract_commit_hash.
MinHashLen == 7
MaxHashLen == 40

\* The default threshold of _is_similar, 0.85, in hundredths.
DefaultThreshold == 85

\* [a-f0-9] under re.IGNORECASE.
IsHex(c) ==
  LowerChar(c) \in {"0", "1", "2", "3", "4", "5", "6", "7", "8", "9",
                    "a", "b", "c", "d", "e", "f"}

\* The length of the run of hex digits starting at position i of s.
RECURSIVE HexRun(_, _)
HexRun(s, i) ==
  IF i <= Len(s) /\ IsHex(CharAt(s, i)) THEN 1 + HexRun(s, i + 1) ELSE 0

\* re.search(r"\[([a-f0-9]{7,40})\]", s, re.IGNORECASE) from position i on:
\* <<group 1>>, or <<>> when there is no match.
RECURSIVE SearchLinkHash(_, _)
SearchLinkHash(s, i) ==
  IF i > Len(s) THEN <<>>
  ELSE LET n == HexRun(s, i + 1) IN
       IF /\ CharAt(s, i) = "["
          /\ n >= MinHashLen
          /\ n <= MaxHashLen
          /\ CharAt(s, i + 1 + n) = "]"
       THEN <<Slice(s, i + 1, i + n)>>
       ELSE SearchLinkHash(s, i + 1)

\* re.match(r"^([a-f0-9]{7,40})\s*[-:]", s, re.IGNORECASE)
MatchLeadingHash(s) ==
  LET n == HexRun(s, 1)
      k == n + 1 + SpaceRun(s, n + 1)
  IN  IF n >= MinHashLen /\ n <= MaxHashLen /\ CharAt(s, k) \in {"-", ":"}
      THEN <<Slice(s, 1, n)>>
      ELSE <<>>

\* re.search(r"commit\s+([a-f0-9]{7,40})", s, re.IGNORECASE) from position i on.
RECURSIVE SearchCommitHash(_, _)
SearchCommitHash(s, i) ==
  IF i > Len(s) THEN <<>>
  ELSE LET sp == SpaceRun(s, i + 6)
           n  == HexRun(s, i + 6 + sp)
           m  == IF n > MaxHashLen THEN MaxHashLen ELSE n
       IN  IF /\ Lower(Slice(s, i, i + 5)) = "commit"
              /\ sp >= 1
              /\ n >= MinHashLen
           THEN <<Slice(s, i + 6 + sp, i + 5 + sp + m)>>
           ELSE SearchCommitHash(s, i + 1)

\* The first of the three matches that is there: <<group 1>>, or <<>>.
FirstMatch(link, lead, cmt) ==
  IF link # <<>> THEN link ELSE IF lead # <<>> THEN lead ELSE cmt

\* match.group(1).lower() of a match that is there.
LowerMatch(match) == IF match = <<>> THEN <<>> ELSE <<Lower(match[1])>>

\* _extract_commit_hash without .lower().
ExtractCommitHashAsWritten(bullet) ==
  FirstMatch(SearchLinkHash(bullet, 1), MatchLeadingHash(bullet),
             SearchCommitHash(bullet, 1))

\* _extract_commit_hash: <<hash>> or <<>> (None).
_extract_commit_hash(bullet) ==
  LowerMatch(FirstMatch(SearchLinkHash(bullet, 1), MatchLeadingHash(bullet),
                        SearchCommitHash(bullet, 1)))

\* s.split(): the maximal runs of non-space characters.
RECURSIVE SplitWords(_)
SplitWords(s) ==
  LET t == LStrip(s) IN
  IF t = "" THEN <<>>
  ELSE LET RECURSIVE WordLen(_)
           WordLen(i) ==
             IF i <= Len(t) /\ ~IsSpace(CharAt(t, i)) THEN 1 + WordLen(i + 1) ELSE 0
           n == WordLen(1)
       IN  <<SubSeq(t, 1, n)>> \o SplitWords(DropFirst(t, n))

\* " ".join(words)
RECURSIVE JoinWords(_)
JoinWords(words) ==
  IF words = <<>> THEN ""
  ELSE IF Len(words) = 1 THEN words[1]
  ELSE words[1] \o " " \o JoinWords(Tail(words))

_normalize_bullet(bullet) == Strip(JoinWords(SplitWords(bullet)))

\* _is_similar without the lowering of the two texts.
IsSimilarCaseSensitive(text1, text2, threshold) ==
  LET norm1 == _normalize_bullet(text1)
      norm2 == _normalize_bullet(text2)
      chars1 == CharSet(norm1)
      chars2 == CharSet(norm2)
  IN  IF norm1 = norm2 THEN TRUE
      ELSE IF norm1 = "" \/ norm2 = "" THEN FALSE
      ELSE Cardinality(chars1 \cap chars2) * 100
             >= threshold * Cardinality(chars1 \cup chars2)

\* _is_similar; threshold in hundredths (0.85 is 85).
_is_similar(text1, text2, threshold) ==
  LET norm1 == Lower(_normalize_bullet(text1))
      norm2 == Lower(_normalize_bullet(text2))
      chars1 == CharSet(norm1)
      chars2 == CharSet(norm2)
      intersection == Cardinality(chars1 \cap chars2)
      union == Cardinality(chars1 \cup chars2)
  IN  IF norm1 = norm2 THEN TRUE
      ELSE IF norm1 = "" \/ norm2 = "" THEN FALSE
      ELSE IF union = 0 THEN FALSE
      ELSE intersection * 100 >= threshold * union

\* any(_is_similar(new_bullet, b) for b in merged)
SimilarToAny(new_bullet, merged) ==
  \E i \in 1..Len(merged) : _is_similar(new_bullet, merged[i], DefaultThreshold)

\* The loop of _deduplicate_bullets over new[i..]: <<merged, duplicates>>.
RECURSIVE DedupBulletsFrom(_, _, _, _)
DedupBulletsFrom(merged, duplicates, new, i) ==
  IF i > Len(new) THEN <<merged, duplicates>>
  ELSE IF SimilarToAny(new[i], merged)
       THEN DedupBulletsFrom(merged, duplicates + 1, new, i + 1)
       ELSE DedupBulletsFrom(Append(merged, new[i]), duplicates, new, i + 1)

\* _deduplicate_bullets with each new bullet compared with the existing
\* bullets only.
RECURSIVE DedupBulletsAgainstExisting(_, _)
DedupBulletsAgainstExisting(existing, new) ==
  IF new = <<>> THEN <<existing, 0>>
  ELSE LET rest == DedupBulletsAgainstExisting(existing, SubSeq(new, 1, Len(new) - 1))
           last == new[Len(new)]
       IN  IF SimilarToAny(last, existing)
           THEN <<rest[1], rest[2] + 1>>
           ELSE <<Append(rest[1], last), rest[2]>>

_deduplicate_bullets(existing, new) == DedupBulletsFrom(existing, 0, new, 1)

\* The hashes of the existing bullets (the first loop of _deduplicate_commits).
ExistingHashes(existing) ==
  {h[1] : h \in {_extract_commit_hash(existing[j]) : j \in 1..Len(existing)} \ {<<>>}}

\* One round of the second loop of _deduplicate_commits, on a bullet with
\* its commit_hash: <<merged, seen_hashes, duplicates>>.
CommitStep(merged, seen_hashes, duplicates, bullet, commit_hash) ==
  IF commit_hash # <<>> /\ commit_hash[1] \in seen_hashes
  THEN <<merged, seen_hashes, duplicates + 1>>
  ELSE <<Append(merged, bullet),
         IF commit_hash # <<>> THEN seen_hashes \cup {commit_hash[1]} ELSE seen_hashes,
         duplicates>>

\* The second loop of _deduplicate_commits over new[i..], from the state
\* <<merged, seen_hashes, duplicates>>.
RECURSIVE DedupCommitsFrom(_, _, _)
DedupCommitsFrom(state, new, i) ==
  IF i > Len(new) THEN <<state[1], state[3]>>
  ELSE DedupCommitsFrom(CommitStep(state[1], state[2], state[3], new[i],
                                   _extract_commit_hash(new[i])),
                        new, i + 1)

_deduplicate_commits(existing, new) ==
  DedupCommitsFrom(<<existing, ExistingHashes(existing), 0>>, new, 1)

(***************************************************************************)
(* Document model and parser.                                              *)
(***************************************************************************)

\* Stand-ins for the emoji of the section patterns and headings.  In the
\* source each is a fixed run of non-ASCII characters, the same in the
\* pattern and in the heading written by merge_date_sections.
EmojiGoals == "<1>"
EmojiTechnical == "<2>"
EmojiMetrics == "<3>"
EmojiDecisions == "<4>"
EmojiImpact == "<5>"
EmojiOpenItems == "<6>"
EmojiLearnings == "<7>"
EmojiWeekly == "<8>"

\* The keys of section_patterns, in dict order.
SectionKeys ==
  <<"goals", "technical", "metrics", "decisions", "impact", "open_items",
    "learnings", "weekly_summary">>

\* The seven bullet-list keys.
BulletKeys ==
  <<"goals", "technical", "metrics", "decisions", "impact", "open_items",
    "learnings">>

\* section_patterns: each pattern is a sequence of literals with \s* between
\* them; what follows the last literal (s?, \s*(&\s*Context)?) is optional
\* and re.match does not anchor the end, so it never decides a match.  The
\* literals are written in lower case, for re.IGNORECASE.
section_patterns ==
  [goals |-> <<"###", EmojiGoals, "goal">>,
   technical |-> <<"###", EmojiTechnical, "technical", "work">>,
   metrics |-> <<"###", EmojiMetrics, "metric">>,
   decisions |-> <<"###", EmojiDecisions, "key", "decision">>,
   impact |-> <<"###", EmojiImpact, "impact", "assessment">>,
   open_items |-> <<"###", EmojiOpenItems, "open", "item">>,
   learnings |-> <<"###", EmojiLearnings, "learning">>,
   weekly_summary |-> <<"###", EmojiWeekly, "weekly", "summary">>]

\* re.match of the literals tokens[k..] at position pos of s, where s is
\* already in lower case.
RECURSIVE MatchTokens(_, _, _, _)
MatchTokens(s, pos, tokens, k) ==
  IF k > Len(tokens) THEN TRUE
  ELSE LET p == IF k = 1 THEN pos ELSE pos + SpaceRun(s, pos)
           t == tokens[k]
       IN  /\ p + Len(t) - 1 <= Len(s)
           /\ SubSeq(s, p, p + Len(t) - 1) = t
           /\ MatchTokens(s, p + Len(t), tokens, k + 1)

\* The inner loop over section_patterns: the first key whose pattern matches
\* lowered, or "" (None).
RECURSIVE MatchedFrom(_, _)
MatchedFrom(lowered, k) ==
  IF k > Len(SectionKeys) THEN ""
  ELSE IF MatchTokens(lowered, 1, section_patterns[SectionKeys[k]], 1)
       THEN SectionKeys[k]
       ELSE MatchedFrom(lowered, k + 1)

\* matched_section after the loop over section_patterns on line.strip().
\* Every pattern starts with the literal ###, so a line that does not is
\* matched by none; re.IGNORECASE is had by lowering the line once.
matched_section(line) ==
  LET stripped == Strip(line) IN
  IF ~StartsWith(stripped, "###") THEN "" ELSE MatchedFrom(Lower(stripped), 1)

\* The empty DateEntrySections; weekly_summary is <<>> for None and <<s>>
\* for the string s.
EmptySections ==
  [goals |-> <<>>, technical |-> <<>>, metrics |-> <<>>, decisions |-> <<>>,
   impact |-> <<>>, open_items |-> <<>>, learnings |-> <<>>,
   weekly_summary |-> <<>>]

\* A "- " or "* " line.
IsBulletLine(stripped) == StartsWith(stripped, "- ") \/ StartsWith(stripped, "* ")

\* The section loop of read_date_entry over lines[i..].
RECURSIVE ParseEntryFrom(_, _, _, _, _)
ParseEntryFrom(lines, i, current_section, weekly_summary_lines, sections) ==
  IF i > Len(lines)
  THEN IF weekly_summary_lines # <<>>
       THEN [sections EXCEPT
               !.weekly_summary = <<Strip(JoinLines(weekly_summary_lines))>>]
       ELSE sections
  ELSE LET line == lines[i]
           matched == matched_section(line)
           stripped == Strip(line)
           bullet_content == Strip(DropFirst(stripped, 2))
       IN  IF matched # ""
           THEN ParseEntryFrom(lines, i + 1, matched,
                  IF matched = "weekly_summary" THEN <<>> ELSE weekly_summary_lines,
                  sections)
           ELSE IF current_section = ""
           THEN ParseEntryFrom(lines, i + 1, current_section,
                               weekly_summary_lines, sections)
           ELSE IF current_section = "weekly_summary"
           THEN ParseEntryFrom(lines, i + 1, current_section,
                               Append(weekly_summary_lines, line), sections)
           ELSE IF IsBulletLine(stripped) /\ bullet_content # ""
           THEN ParseEntryFrom(lines, i + 1, current_section, weekly_summary_lines,
                  [sections EXCEPT ![current_section] = Append(@, bullet_content)])
           ELSE ParseEntryFrom(lines, i + 1, current_section,
                               weekly_summary_lines, sections)

\* A level-2 heading: stripped.startswith("## ") and len(stripped) > 3.
IsLevel2Heading(line) ==
  LET stripped == Strip(line) IN StartsWith(stripped, "## ") /\ Len(stripped) > 3

\* The index of the first level-2 heading among lines[i..], or Len(lines) + 1.
RECURSIVE SectionEnd(_, _)
SectionEnd(lines, i) ==
  IF i > Len(lines) THEN Len(lines) + 1
  ELSE IF IsLevel2Heading(lines[i]) THEN i
  ELSE SectionEnd(lines, i + 1)

IsDigit(c) == c \in {"0", "1", "2", "3", "4", "5", "6", "7", "8", "9"}

DigitVal(c) ==
  CASE c = "0" -> 0 [] c = "1" -> 1 [] c = "2" -> 2 [] c = "3" -> 3
    [] c = "4" -> 4 [] c = "5" -> 5 [] c = "6" -> 6 [] c = "7" -> 7
    [] c = "8" -> 8 [] c = "9" -> 9

\* int(s) for a string of digits.
RECURSIVE ToInt(_)
ToInt(s) ==
  IF s = "" THEN 0 ELSE 10 * ToInt(Slice(s, 1, Len(s) - 1)) + DigitVal(CharAt(s, Len(s)))

DaysInMonth(year, month) ==
  IF month \in {4, 6, 9, 11} THEN 30
  ELSE IF month # 2 THEN 31
  ELSE IF year % 4 = 0 /\ (year % 100 # 0 \/ year % 400 = 0) THEN 29
  ELSE 28

\* The extended form YYYY-MM-DD and the basic form YYYYMMDD of ISO 8601.
IsExtendedForm(date_str) ==
  /\ Len(date_str) = 10
  /\ CharAt(date_str, 5) = "-"
  /\ CharAt(date_str, 8) = "-"
  /\ \A i \in {1, 2, 3, 4, 6, 7, 9, 10} : IsDigit(CharAt(date_str, i))

IsBasicForm(date_str) ==
  /\ Len(date_str) = 8
  /\ \A i \in 1..8 : IsDigit(CharAt(date_str, i))

\* date(year, month, day).isoformat() for the digits of the three fields:
\* <<iso>>, or <<>> when there is no such day (ValueError).
CalendarDate(yyyy, mm, dd) ==
  LET year == ToInt(yyyy)
      month == ToInt(mm)
      day == ToInt(dd)
  IN  IF /\ year >= 1
         /\ month >= 1 /\ month <= 12
         /\ day >= 1 /\ day <= DaysInMonth(year, month)
      THEN <<yyyy \o "-" \o mm \o "-" \o dd>>
      ELSE <<>>

\* date.fromisoformat(date_str).isoformat(): <<iso>>, or <<>> when ValueError
\* is raised.  The package imports tomllib, so it runs on Python 3.11 or
\* later, where the basic form is parsed as well as the extended one (the
\* week forms YYYY-Www-D are not among the inputs here).
fromisoformat(date_str) ==
  IF IsExtendedForm(date_str)
  THEN CalendarDate(Slice(date_str, 1, 4), Slice(date_str, 6, 7), Slice(date_str, 9, 10))
  ELSE IF IsBasicForm(date_str)
  THEN CalendarDate(Slice(date_str, 1, 4), Slice(date_str, 5, 6), Slice(date_str, 7, 8))
  ELSE <<>>

\* The DateEntryResponse of a missing entry.
NoEntry(date) ==
  [exists |-> FALSE, date |-> date, heading_line |-> 0,
   sections |-> EmptySections, raw_content |-> ""]

\* read_date_entry on a file that exists or not, with text as its content;
\* heading_line 0 stands for None.
read_date_entry(date_str, exists, text) ==
  LET iso == fromisoformat(date_str) IN
  IF iso = <<>> THEN NoEntry(date_str)
  ELSE IF ~exists THEN NoEntry(iso[1])
  ELSE LET lines == SplitLines(NormalizeNewlines(text))
           heading == "## " \o iso[1]
           heading_idx == FindHeading(lines, heading, 1)
           end_idx == SectionEnd(lines, heading_idx + 1)
           section_lines == SubSeq(lines, heading_idx + 1, end_idx - 1)
       IN  IF heading_idx = 0 THEN NoEntry(iso[1])
           ELSE [exists |-> TRUE, date |-> iso[1], heading_line |-> heading_idx,
                 sections |-> ParseEntryFrom(section_lines, 1, "", <<>>, EmptySections),
                 raw_content |-> JoinLines(section_lines)]

(***************************************************************************)
(* Section merge engine.                                                   *)
(***************************************************************************)

\* [ln.rstrip() for ln in lines]
RECURSIVE RStripAll(_)
RStripAll(lines) ==
  IF lines = <<>> THEN <<>> ELSE <<RStrip(lines[1])>> \o RStripAll(Tail(lines))

\* The section loop of merge_date_sections over lines[i..].
RECURSIVE ParseNewFrom(_, _, _, _, _, _)
ParseNewFrom(lines, i, current_section, weekly_summary_lines, new_sections, preserve_lines) ==
  IF i > Len(lines)
  THEN IF weekly_summary_lines # <<>>
       THEN [new_sections EXCEPT
               !.weekly_summary = <<Strip(JoinLines(weekly_summary_lines))>>]
       ELSE new_sections
  ELSE LET line == lines[i]
           matched == matched_section(line)
           stripped == Strip(line)
           bullet_content == Strip(DropFirst(stripped, 2))
       IN  IF matched # ""
           THEN ParseNewFrom(lines, i + 1, matched,
                  IF matched = "weekly_summary" THEN <<>> ELSE weekly_summary_lines,
                  new_sections, preserve_lines)
           ELSE IF current_section = ""
           THEN ParseNewFrom(lines, i + 1, current_section, weekly_summary_lines,
                             new_sections, preserve_lines)
           ELSE IF current_section = "weekly_summary"
           THEN ParseNewFrom(lines, i + 1, current_section,
                             Append(weekly_summary_lines, line), new_sections,
                             preserve_lines)
           ELSE IF IsBulletLine(stripped)
           THEN ParseNewFrom(lines, i + 1, current_section, weekly_summary_lines,
                  IF bullet_content # ""
                  THEN [new_sections EXCEPT ![current_section] = Append(@, bullet_content)]
                  ELSE new_sections,
                  preserve_lines)
           ELSE IF preserve_lines /\ stripped # ""
           THEN ParseNewFrom(lines, i + 1, current_section, weekly_summary_lines,
                  [new_sections EXCEPT ![current_section] = Append(@, stripped)],
                  preserve_lines)
           ELSE ParseNewFrom(lines, i + 1, current_section, weekly_summary_lines,
                             new_sections, preserve_lines)

\* new_sections of merge_date_sections: the new content, parsed.
ParseNewContent(new_content, preserve_lines) ==
  ParseNewFrom(RStripAll(SplitLines(NormalizeNewlines(new_content))), 1, "", <<>>,
               EmptySections, preserve_lines)

\* MergeBullets with a non-empty new list taking the place of the existing one.
MergeBulletsReplacing(key, existing_bullets, new_bullets) ==
  IF new_bullets # <<>> THEN <<new_bullets, 0>> ELSE <<existing_bullets, 0>>

\* MergeBullets with every list merged by commit hash.
MergeBulletsAllByHash(key, existing_bullets, new_bullets) ==
  _deduplicate_commits(existing_bullets, new_bullets)

\* The merge of one bullet list: <<merged, duplicates>>.  Technical Work is
\* merged by commit hash, Goals, Decisions, Impact, Open Items and Learnings
\* by similarity.
MergeBullets(key, existing_bullets, new_bullets) ==
  IF key = "technical"
  THEN _deduplicate_commits(existing_bullets, new_bullets)
  ELSE _deduplicate_bullets(existing_bullets, new_bullets)

\* MergeMetrics with the existing bullets kept when there are any.
MergeMetricsKeepingOld(existing_metrics, new_metrics) ==
  IF existing_metrics # <<>> THEN existing_metrics ELSE new_metrics

\* MergeMetrics with the new bullets added to the existing ones.
MergeMetricsAdding(existing_metrics, new_metrics) ==
  _deduplicate_bullets(existing_metrics, new_metrics)[1]

\* Metrics: prefer new (recalculated) over existing.
MergeMetrics(existing_metrics, new_metrics) ==
  IF new_metrics # <<>> THEN new_metrics ELSE existing_metrics

\* MergeWeeklySummary with an existing summary kept when there is one.
MergeWeeklySummaryKeepingOld(existing_summary, new_summary) ==
  IF existing_summary # <<>> /\ existing_summary[1] # ""
  THEN existing_summary
  ELSE new_summary

\* Weekly summary: preserve existing unless a new, non-empty one is provided.
MergeWeeklySummary(existing_summary, new_summary) ==
  IF new_summary # <<>> /\ new_summary[1] # "" THEN new_summary ELSE existing_summary

\* The six additive merges of merge_date_sections, by key: <<merged,
\* duplicates>> each.
MergeAll(existing_sections, new_sections) ==
  [key \in {"goals", "technical", "decisions", "impact", "open_items", "learnings"} |->
     MergeBullets(key, existing_sections[key], new_sections[key])]

\* merged_sections of merge_date_sections.
MergedSections(merges, existing_sections, new_sections) ==
  [goals |-> merges["goals"][1],
   technical |-> merges["technical"][1],
   metrics |-> MergeMetrics(existing_sections.metrics, new_sections.metrics),
   decisions |-> merges["decisions"][1],
   impact |-> merges["impact"][1],
   open_items |-> merges["open_items"][1],
   learnings |-> merges["learnings"][1],
   weekly_summary |-> MergeWeeklySummary(existing_sections.weekly_summary,
                                         new_sections.weekly_summary)]

\* TotalDuplicates without the duplicates of Technical Work.
TotalDuplicatesLessTechnical(merges) ==
  merges["goals"][2] + merges["decisions"][2] + merges["impact"][2]
  + merges["open_items"][2] + merges["learnings"][2]

\* total_duplicates of merge_date_sections.
TotalDuplicates(merges) ==
  merges["goals"][2] + merges["decisions"][2] + merges["impact"][2]
  + merges["open_items"][2] + merges["learnings"][2] + merges["technical"][2]

\* The headings of section_order and the Weekly Summary heading.
section_heading ==
  [goals |-> "### " \o EmojiGoals \o " Goals & Context",
   technical |-> "### " \o EmojiTechnical \o " Technical Work",
   metrics |-> "### " \o EmojiMetrics \o " Metrics",
   decisions |-> "### " \o EmojiDecisions \o " Key Decisions",
   impact |-> "### " \o EmojiImpact \o " Impact Assessment",
   open_items |-> "### " \o EmojiOpenItems \o " Open Items",
   learnings |-> "### " \o EmojiLearnings \o " Learnings",
   weekly_summary |-> "### " \o EmojiWeekly \o " Weekly Summary"]

\* section_order with Metrics moved behind the other bullet sections.
section_order_metrics_last ==
  <<"goals", "technical", "decisions", "impact", "open_items", "learnings",
    "metrics">>

section_order ==
  <<"goals", "technical", "metrics", "decisions", "impact", "open_items",
    "learnings">>

\* [f"- {bullet}" for bullet in bullets]
\* BulletLines without the "- " before each bullet.
RECURSIVE BulletLinesBare(_)
BulletLinesBare(bullets) ==
  IF bullets = <<>> THEN <<>>
  ELSE <<bullets[1]>> \o BulletLinesBare(Tail(bullets))

RECURSIVE BulletLines(_)
BulletLines(bullets) ==
  IF bullets = <<>> THEN <<>>
  ELSE <<"- " \o bullets[1]>> \o BulletLines(Tail(bullets))

\* The loop over section_order from its k-th entry on.
RECURSIVE EmitBulletSections(_, _)
EmitBulletSections(merged_sections, k) ==
  IF k > Len(section_order) THEN <<>>
  ELSE LET bullets == merged_sections[section_order[k]] IN
       (IF bullets # <<>>
        THEN <<"", section_heading[section_order[k]], "">> \o BulletLines(bullets)
        ELSE <<>>)
       \o EmitBulletSections(merged_sections, k + 1)

\* The Weekly Summary block of the output.
EmitWeeklySummary(summary) ==
  IF summary # <<>> /\ summary[1] # ""
  THEN <<"", section_heading.weekly_summary, "">> \o SplitLines(summary[1])
  ELSE <<>>

\* output_lines of merge_date_sections.
OutputLines(merged_sections) ==
  EmitBulletSections(merged_sections, 1)
  \o EmitWeeklySummary(merged_sections.weekly_summary)

\* The reconstruction of merge_date_sections: <<merged_content,
\* total_duplicates>>.
EmitMerged(merges, existing_sections, new_sections) ==
  <<JoinLines(OutputLines(MergedSections(merges, existing_sections, new_sections))),
    TotalDuplicates(merges)>>

\* merge_date_sections once the new content is parsed.
MergeParsed(existing_sections, new_sections) ==
  EmitMerged(MergeAll(existing_sections, new_sections), existing_sections, new_sections)

\* merge_date_sections: <<merged_content, total_duplicates>>.
merge_date_sections(existing, new_content, preserve_lines) ==
  MergeParsed(existing.sections, ParseNewContent(new_content, preserve_lines))

(***************************************************************************)
(* Document writer: append_to_markdown.                                    *)
(***************************************************************************)

\* doc_lines: split("\n") with the trailing empty string of a final newline
\* popped.
DocLines(text) ==
  LET lines == SplitLines(text) IN
  IF lines[Len(lines)] = "" THEN SubSeq(lines, 1, Len(lines) - 1) ELSE lines

\* merged_lines with its leading blank lines popped.
RECURSIVE DropLeadingBlank(_)
DropLeadingBlank(lines) ==
  IF lines # <<>> /\ Strip(lines[1]) = "" THEN DropLeadingBlank(Tail(lines)) ELSE lines

\* sum(1 for line in lines if line.strip().startswith("- "))
RECURSIVE CountDashBullets(_)
CountDashBullets(lines) ==
  IF lines = <<>> THEN 0
  ELSE (IF StartsWith(Strip(lines[1]), "- ") THEN 1 ELSE 0)
       + CountDashBullets(Tail(lines))

\* sum(len(bullets) for bullets in sections.values() if isinstance(bullets, list))
ExistingBulletCount(sections) ==
  Len(sections.goals) + Len(sections.technical) + Len(sections.metrics)
  + Len(sections.decisions) + Len(sections.impact) + Len(sections.open_items)
  + Len(sections.learnings)

\* What a call leaves behind: the record it returns and the file.
Outcome(result, exists, text) == [result |-> result, exists |-> exists, text |-> text]

\* text, then "\n" unless it already ends with one.
EnsureFinalNewline(text) == IF EndsWith(text, "\n") THEN text ELSE text \o "\n"

\* ReplaceSection with the slice ending one line too late: the heading of the
\* next date section is replaced too.
ReplaceSectionPastEnd(doc_lines, heading_idx, end_idx, replacement) ==
  SubSeq(doc_lines, 1, heading_idx) \o replacement
  \o SubSeq(doc_lines, end_idx + 1, Len(doc_lines))

\* doc_lines[heading_idx + 1 : end_idx] = replacement, with 1-based heading_idx
\* and end_idx.
ReplaceSection(doc_lines, heading_idx, end_idx, replacement) ==
  SubSeq(doc_lines, 1, heading_idx) \o replacement
  \o SubSeq(doc_lines, end_idx, Len(doc_lines))

\* The update-mode branch from the replacement of the section on: write the
\* file and build the response.
UpdateOutcome(merged_lines, deduplicated_count, existing_bullet_count, heading, doc_lines, heading_idx, end_idx) ==
  LET replacement == <<"">> \o merged_lines
                     \o (IF end_idx <= Len(doc_lines) THEN <<"">> ELSE <<>>)
      new_lines == ReplaceSection(doc_lines, heading_idx, end_idx, replacement)
      bullet_count == CountDashBullets(merged_lines)
  IN  Outcome([ok |-> TRUE,
               bullets_added |-> bullet_count,
               content_added |-> merged_lines,
               line_numbers_added |->
                 [k \in 1..Len(merged_lines) |-> heading_idx + k],
               heading |-> heading,
               heading_added |-> FALSE,
               heading_line_number |-> heading_idx,
               update_mode_used |-> TRUE,
               existing_bullets_preserved |-> existing_bullet_count,
               new_bullets_added |->
                 bullet_count - existing_bullet_count + deduplicated_count,
               deduplicated_count |-> deduplicated_count],
              TRUE, EnsureFinalNewline(JoinLines(new_lines)))

\* The update-mode branch once the merge is made: merged is <<merged_content,
\* deduplicated_count>>.
WriteMerged(merged, existing, heading, doc_lines, heading_idx) ==
  UpdateOutcome(DropLeadingBlank(SplitLines(merged[1])), merged[2],
                ExistingBulletCount(existing.sections), heading, doc_lines,
                heading_idx, SectionEnd(doc_lines, heading_idx + 1))

\* The update-mode branch taken when the date section exists: merge, replace
\* the lines of the section, write.  Indices are 1-based.
UpdateSection(existing, content, preserve_lines, heading, doc_lines) ==
  WriteMerged(merge_date_sections(existing, content, preserve_lines), existing,
              heading, doc_lines, FindHeading(doc_lines, heading, 1))

\* BlockLines with every line written as it is, preserve_lines or not.
RECURSIVE BlockLinesAsIs(_, _)
BlockLinesAsIs(lines, preserve_lines) ==
  IF lines = <<>> THEN <<>>
  ELSE (IF Strip(lines[1]) = "" THEN <<>> ELSE <<lines[1]>>)
       \o BlockLinesAsIs(Tail(lines), preserve_lines)

\* BlockLines with the bullet text left unstripped.
RECURSIVE BlockLinesUnstripped(_, _)
BlockLinesUnstripped(lines, preserve_lines) ==
  IF lines = <<>> THEN <<>>
  ELSE (IF Strip(lines[1]) = "" THEN <<>>
        ELSE IF preserve_lines THEN <<lines[1]>>
        ELSE <<"- " \o lines[1]>>)
       \o BlockLinesUnstripped(Tail(lines), preserve_lines)

\* block_lines: the non-blank input lines, as bullets unless preserve_lines.
RECURSIVE BlockLines(_, _)
BlockLines(lines, preserve_lines) ==
  IF lines = <<>> THEN <<>>
  ELSE (IF Strip(lines[1]) = "" THEN <<>>
        ELSE IF preserve_lines THEN <<lines[1]>>
        ELSE <<"- " \o Strip(lines[1])>>)
       \o BlockLines(Tail(lines), preserve_lines)

\* NextHeading stopping at level-2 headings only.
NextHeadingLevel2(lines, i) ==
  IF SectionEnd(lines, i) > Len(lines) THEN 0 ELSE SectionEnd(lines, i)

\* The index of the first line after i that starts with "#", or 0 (None).
RECURSIVE NextHeading(_, _)
NextHeading(lines, i) ==
  IF i > Len(lines) THEN 0
  ELSE IF StartsWith(LStrip(lines[i]), "#") /\ Strip(lines[i]) # "" THEN i
  ELSE NextHeading(lines, i + 1)

\* "".join(line + "\n" for line in lines)
RECURSIVE TerminateLines(_)
TerminateLines(lines) ==
  IF lines = <<>> THEN "" ELSE lines[1] \o "\n" \o TerminateLines(Tail(lines))

\* The non-update path from the insertion on: build insert_block, insert
\* it, write the file and build the response.
InsertBlock(block_lines, with_heading, heading_exists, heading, heading_idx, next_heading_idx) ==
  LET lead == IF heading_idx + 1 > Len(with_heading)
                 \/ Strip(with_heading[heading_idx + 1]) # ""
              THEN <<"">> ELSE <<>>
      insert_block == lead \o block_lines
                      \o (IF next_heading_idx # 0 THEN <<"">> ELSE <<>>)
      insert_at == IF next_heading_idx # 0 THEN next_heading_idx
                   ELSE Len(with_heading) + 1
      bullets_offset_in_block == IF insert_block # <<>> /\ insert_block[1] = ""
                                 THEN 1 ELSE 0
      new_lines == SubSeq(with_heading, 1, insert_at - 1) \o insert_block
                   \o SubSeq(with_heading, insert_at, Len(with_heading))
  IN  Outcome([ok |-> TRUE,
               bullets_added |-> Len(block_lines),
               content_added |-> block_lines,
               line_numbers_added |->
                 [k \in 1..Len(block_lines) |->
                    insert_at + bullets_offset_in_block + k - 1],
               heading |-> heading,
               heading_added |-> ~heading_exists,
               heading_line_number |->
                 IF heading_exists THEN 0 ELSE heading_idx,
               update_mode_used |-> FALSE,
               existing_bullets_preserved |-> 0,
               new_bullets_added |-> Len(block_lines),
               deduplicated_count |-> 0],
              TRUE, EnsureFinalNewline(TerminateLines(new_lines)))

\* The non-update path once the heading is in doc_lines: find it and the
\* next heading.
InsertUnder(block_lines, with_heading, heading_exists, heading, heading_idx) ==
  InsertBlock(block_lines, with_heading, heading_exists, heading, heading_idx,
              NextHeading(with_heading, heading_idx + 1))

\* WithHeading without the blank separator line.
WithHeadingUnseparated(doc_lines, heading, heading_exists) ==
  IF heading_exists THEN doc_lines ELSE doc_lines \o <<heading, "">>

\* doc_lines with the heading appended when it is missing.
WithHeading(doc_lines, heading, heading_exists) ==
  IF heading_exists THEN doc_lines
  ELSE doc_lines
       \o (IF doc_lines # <<>> /\ Strip(doc_lines[Len(doc_lines)]) # ""
           THEN <<"">> ELSE <<>>)
       \o <<heading, "">>

\* The non-update path once the heading is in the lines.
AppendUnder(block_lines, with_heading, heading, heading_exists) ==
  InsertUnder(block_lines, with_heading, heading_exists, heading,
              FindHeading(with_heading, heading, 1))

\* The non-update path on doc_lines, the heading found in them or not.
AppendTo(block_lines, doc_lines, heading, heading_exists) ==
  AppendUnder(block_lines, WithHeading(doc_lines, heading, heading_exists),
              heading, heading_exists)

\* The non-update path with its block_lines and doc_lines.
AppendLines(block_lines, doc_lines, heading, exists, text) ==
  IF block_lines = <<>>
  THEN Outcome([error |-> "content contained only blank lines"], exists, text)
  ELSE AppendTo(block_lines, doc_lines, heading,
                FindHeading(doc_lines, heading, 1) # 0)

\* ExistingLines with every blank line at the end of the file dropped.
RECURSIVE DropTrailingBlank(_)
DropTrailingBlank(lines) ==
  IF lines # <<>> /\ Strip(lines[Len(lines)]) = ""
  THEN DropTrailingBlank(SubSeq(lines, 1, Len(lines) - 1))
  ELSE lines

ExistingLinesTrimmed(existing) ==
  IF existing # "" THEN DropTrailingBlank(DocLines(EnsureFinalNewline(existing))) ELSE <<>>

\* doc_lines of the non-update path: the file read, ended by a newline,
\* split.
ExistingLines(existing) ==
  IF existing # "" THEN DocLines(EnsureFinalNewline(existing)) ELSE <<>>

\* The non-update path: insert the block under the heading, created if missing.
AppendBlock(content, preserve_lines, heading, exists, text) ==
  AppendLines(BlockLines(RStripAll(SplitLines(NormalizeNewlines(content))),
                         preserve_lines),
              ExistingLines(IF exists THEN NormalizeNewlines(text) ELSE ""),
              heading, exists, text)

\* UpdateOrAppend taking the update branch whenever update_mode is set, the
\* entry found or not.
UpdateWheneverAsked(content, heading, existing, preserve_lines, update_mode, exists, text) ==
  IF update_mode
  THEN UpdateSection(existing, content, preserve_lines, heading,
                     DocLines(NormalizeNewlines(text)))
  ELSE AppendBlock(content, preserve_lines, heading, exists, text)

\* append_to_markdown from the UPDATE MODE test on, with the entry read for
\* the date.
UpdateOrAppend(content, heading, existing, preserve_lines, update_mode, exists, text) ==
  IF update_mode /\ existing.exists
  THEN UpdateSection(existing, content, preserve_lines, heading,
                     DocLines(NormalizeNewlines(text)))
  ELSE AppendBlock(content, preserve_lines, heading, exists, text)

\* append_to_markdown once date_str is parsed: iso is <<date_for_heading>>, or
\* <<>> when date.fromisoformat raised ValueError.
WithDate(content, iso, preserve_lines, update_mode, exists, text) ==
  IF iso = <<>>
  THEN Outcome([error |-> "date_str must be in YYYY-MM-DD format"], exists, text)
  ELSE UpdateOrAppend(content, "## " \o iso[1],
                      read_date_entry(iso[1], exists, text),
                      preserve_lines, update_mode, exists, text)

\* append_to_markdown(content, date_str, preserve_lines, update_mode) on a
\* file that exists or not, with text as its content.
append_to_markdown(content, date_str, preserve_lines, update_mode, exists, text) ==
  IF Strip(content) = ""
  THEN Outcome([error |-> "content is required and cannot be empty"], exists, text)
  ELSE WithDate(content, fromisoformat(date_str), preserve_lines, update_mode,
                exists, text)

\* A success record.
Succeeded(r) == "ok" \in DOMAIN r

\* What a call leaves on the filesystem: the outcome on the file, whether
\* the parent directory exists, the filesystem calls that were made and the
\* one that failed ("none" when none did).
FsOutcome(out, dir, ops, failed) ==
  [result |-> out.result, exists |-> out.exists, text |-> out.text,
   dir |-> dir, touched |-> ops, failed |-> failed]

\* The filesystem call of the try block that raises OSError, if any: mkdir
\* of the parent directory, read_text, write_text when it opens the file or
\* once the file is truncated.
Faults == {"none", "mkdir", "read", "open", "write"}

\* An exception raised inside the try block; the file is as given.
Raise(cause, exists, text) == Outcome([raised |-> cause], exists, text)

\* The filesystem calls made up to write_text.
UpToWrite(exists) ==
  {"mkdir", "exists", "write_text"} \cup (IF exists THEN {"read_text"} ELSE {})

\* The try block once the parent directory is made: the date is parsed,
\* path.exists() and read_text come next, write_text comes last.  normal is
\* what append_to_markdown does when no filesystem call fails, iso the parsed
\* date_str.
AfterMkdir(normal, iso, fault, exists, text) ==
  IF iso = <<>> THEN FsOutcome(normal, TRUE, {"mkdir"}, "none")
  ELSE IF fault = "read" /\ exists
  THEN FsOutcome(Raise("read_text: Permission denied", exists, text), TRUE,
                 {"mkdir", "exists", "read_text"}, fault)
  ELSE IF fault = "open" /\ Succeeded(normal.result)
  THEN FsOutcome(Raise("write_text: Permission denied", exists, text), TRUE,
                 UpToWrite(exists), fault)
  ELSE IF fault = "write" /\ Succeeded(normal.result)
  THEN FsOutcome(Raise("write_text: No space left on device", TRUE, ""), TRUE,
                 UpToWrite(exists), fault)
  ELSE FsOutcome(normal, TRUE,
                 IF Succeeded(normal.result) THEN UpToWrite(exists)
                 ELSE UpToWrite(exists) \ {"write_text"},
                 "none")

\* TryBlock with the parent directory made before content is tested.
TryBlockMkdirFirst(normal, content, iso, fault, dir, exists, text) ==
  IF fault = "mkdir" /\ ~dir
  THEN FsOutcome(Raise("mkdir: Permission denied", exists, text), dir, {"mkdir"}, fault)
  ELSE IF Strip(content) = "" THEN FsOutcome(normal, TRUE, {"mkdir"}, "none")
  ELSE AfterMkdir(normal, iso, fault, exists, text)

\* The try block on a filesystem: content is tested first, then the parent
\* directory is made (mkdir with parents and exist_ok, which can only fail
\* when the directory is not there yet), then the rest.
TryBlock(normal, content, iso, fault, dir, exists, text) ==
  IF Strip(content) = "" THEN FsOutcome(normal, dir, {}, "none")
  ELSE IF fault = "mkdir" /\ ~dir
  THEN FsOutcome(Raise("mkdir: Permission denied", exists, text), dir, {"mkdir"}, fault)
  ELSE AfterMkdir(normal, iso, fault, exists, text)

\* A try block that lets the exception through.
Uncaught(fs) == fs

\* except Exception as e: return {"error": f"Failed to append to markdown: {e}"}
Recover(fs) ==
  IF "raised" \in DOMAIN fs.result
  THEN [fs EXCEPT !.result = [error |-> "Failed to append to markdown: " \o fs.result.raised]]
  ELSE fs

\* The content argument: <<>> is None, <<c>> the string c.  None is refused
\* by the test that refuses the empty string.
ContentText(given) == IF given = <<>> THEN "" ELSE given[1]

\* append_to_markdown on a filesystem whose calls may fail, normal being what
\* it does when none fails.
Attempt(normal, content, date_str, fault, dir, exists, text) ==
  Recover(TryBlock(normal, content, fromisoformat(date_str), fault, dir, exists, text))

\* append_to_markdown on a filesystem whose calls may fail.
CallAppend(content, date_str, preserve_lines, update_mode, fault, dir, exists, text) ==
  Attempt(append_to_markdown(content, date_str, preserve_lines, update_mode,
                             exists, text),
          content, date_str, fault, dir, exists, text)

(***************************************************************************)
(* The worklog file under a sequence of append_to_markdown calls.          *)
(***************************************************************************)

\* At most MaxCalls calls are made on one file, none of them on a file of
\* more than MaxFileLines lines.
MaxCalls == 2
MaxFileLines == 10

\* The number of "\n" in text.
CountNewlines(text) == Cardinality({i \in 1..Len(text) : CharAt(text, i) = "\n"})

Date1 == "2024-03-01"
Date2 == "2024-03-02"

Dates == {Date1, Date2}

\* Worklog files found before the first call (besides no file at all): an
\* empty file; bullets written directly under the heading; two dates with
\* subsections and a blank line at the end of the file; a CRLF file with a
\* title, a "*" bullet, a Weekly Summary and no final newline.
SeedFiles ==
  { "",
    "## 2024-03-01\n\n- ab\n",
    "## 2024-03-01\n### <1> Goals\n- ab\n### <3> Metrics\n- 5 c\n\n## 2024-03-02\n- fix\n\n",
    "# Log\r\n\r\n## 2024-03-02\r\n### <2> Technical Work\r\n* [abc1234](u) x\r\n### <8> Weekly Summary\r\nsum" }

\* The content arguments: plain lines, with a CRLF, a blank line ended by a
\* lone CR and stray spaces;
\* subsection-tagged content with two similar Goals bullets and a commit
\* bullet; subsection-tagged content out of order, with a Weekly Summary,
\* Metrics, a line that is no bullet and a "*" bullet without commit hash.
Contents ==
  { "ab\r\n\r ba  ",
    "### <1> Goals\n- ab\n- ba\n### <2> Technical Work\n- ABC1234: y",
    "### <3> Metrics\n- 9 c\n### <2> Technical Work\nnote\n* fix" }

NoCall ==
  [content |-> "", content_none |-> FALSE, date_str |-> "",
   preserve_lines |-> FALSE, update_mode |-> FALSE, repeat |-> FALSE,
   failed |-> "none"]

NoResult == [none |-> TRUE]

\* The worklog file may be missing, and its parent directory with it.
Init ==
  /\ fileExists \in BOOLEAN
  /\ fileText \in (IF fileExists THEN SeedFiles ELSE {""})
  /\ dirExists \in (IF fileExists THEN {TRUE} ELSE BOOLEAN)
  /\ preExists = fileExists
  /\ preText = fileText
  /\ preDir = dirExists
  /\ touched = {}
  /\ proc = <<>>
  /\ order = <<>>
  /\ call = NoCall
  /\ res = NoResult
  /\ ncalls = 0
  /\ mode = "file"
  /\ fnIn = <<>>
  /\ fnOut = <<>>

\* One call of append_to_markdown with a content and a date it accepts, no
\* filesystem call failing.  call.repeat records that the call before it was
\* an update-mode merge with the same arguments.
AppendToMarkdown ==
  /\ mode = "file"
  /\ ncalls < MaxCalls
  /\ CountNewlines(fileText) <= MaxFileLines
  /\ \E content \in Contents, date_str \in Dates,
        preserve_lines \in BOOLEAN, update_mode \in BOOLEAN :
       \E out \in {CallAppend(content, date_str, preserve_lines, update_mode,
                              "none", dirExists, fileExists, fileText)} :
           /\ fileExists' = out.exists
           /\ fileText' = out.text
           /\ dirExists' = out.dir
           /\ touched' = out.touched
           /\ res' = out.result
           /\ call' = [content |-> content, content_none |-> FALSE,
                       date_str |-> date_str,
                       preserve_lines |-> preserve_lines,
                       update_mode |-> update_mode,
                       failed |-> out.failed,
                       repeat |-> /\ Succeeded(res)
                                  /\ res.update_mode_used
                                  /\ call.content = content
                                  /\ call.date_str = date_str
                                  /\ call.preserve_lines = preserve_lines
                                  /\ call.update_mode = update_mode]
  /\ preExists' = fileExists
  /\ preText' = fileText
  /\ preDir' = dirExists
  /\ ncalls' = ncalls + 1
  /\ UNCHANGED <<mode, fnIn, fnOut, proc, order>>

Next == AppendToMarkdown

Spec == Init /\ [][Next]_vars

(***************************************************************************)
(* One worklog file under calls of every kind: content that is None, empty *)
(* or blank, dates that are not calendar dates or not in the extended      *)
(* form, the parent directory missing, filesystem calls that fail.         *)
(***************************************************************************)

\* At most MaxIOCalls such calls are made on one file.
MaxIOCalls == 1

\* The files found before the first call, besides no file at all.
IOSeedFiles == {"", "## 2024-03-01\n\n- ab\n"}

\* The content arguments: None, the empty string, blank lines only, plain
\* lines, a Goals subsection.
IOContents ==
  {<<>>, <<"">>, <<" \n\t \r\n">>, <<"ab\n ba">>, <<"### <1> Goals\n- ab">>}

\* The date_str arguments: a date in the extended form, the same date in the
\* basic form, a month and a day that do not exist, another notation.
IODates == {Date1, "20240301", "2024-13-40", "2024-02-30", "03/01/2024"}

InitIO ==
  /\ fileExists \in BOOLEAN
  /\ fileText \in (IF fileExists THEN IOSeedFiles ELSE {""})
  /\ dirExists \in (IF fileExists THEN {TRUE} ELSE BOOLEAN)
  /\ preExists = fileExists
  /\ preText = fileText
  /\ preDir = dirExists
  /\ touched = {}
  /\ proc = <<>>
  /\ order = <<>>
  /\ call = NoCall
  /\ res = NoResult
  /\ ncalls = 0
  /\ mode = "io"
  /\ fnIn = <<>>
  /\ fnOut = <<>>

\* One call of append_to_markdown, with any content and date, one of its
\* filesystem calls failing or none.
AppendToMarkdownIO ==
  /\ mode = "io"
  /\ ncalls < MaxIOCalls
  /\ \E given \in IOContents, date_str \in IODates,
        preserve_lines \in BOOLEAN, update_mode \in BOOLEAN :
       \E normal \in {append_to_markdown(ContentText(given), date_str,
                                         preserve_lines, update_mode,
                                         fileExists, fileText)} :
         \E fault \in Faults :
           \E out \in {Attempt(normal, ContentText(given), date_str, fault,
                               dirExists, fileExists, fileText)} :
             /\ fileExists' = out.exists
             /\ fileText' = out.text
             /\ dirExists' = out.dir
             /\ touched' = out.touched
             /\ res' = out.result
             /\ call' = [content |-> ContentText(given),
                         content_none |-> given = <<>>,
                         date_str |-> date_str,
                         preserve_lines |-> preserve_lines,
                         update_mode |-> update_mode,
                         failed |-> out.failed,
                         repeat |-> FALSE]
  /\ preExists' = fileExists
  /\ preText' = fileText
  /\ preDir' = dirExists
  /\ ncalls' = ncalls + 1
  /\ UNCHANGED <<mode, fnIn, fnOut, proc, order>>

NextIO == AppendToMarkdownIO

SpecIO == InitIO /\ [][NextIO]_vars

TypeOK ==
  /\ fileExists \in BOOLEAN
  /\ preExists \in BOOLEAN
  /\ ncalls \in Nat
  /\ dirExists \in BOOLEAN
  /\ fileExists => dirExists
  /\ mode \in {"file", "io", "read", "merge", "bullets", "commits", "path",
              "race", "similar", "dates"}

(***************************************************************************)
(* read_date_entry on its own: the date and the file are drawn in the      *)
(* initial state, one step reads the entry.                                *)
(***************************************************************************)

\* The date_str arguments: two dates in the extended form, one in the basic
\* form, a month that does not exist, a date without leading zeros, a word.
ReadDates == {Date1, Date2, "20240301", "2024-13-40", "2024-3-1", "invalid-date"}

\* The files read (besides no file at all): an empty file; the heading alone
\* on its line; the heading with spaces around it; the heading with text
\* after it; the heading twice, after another date; a tab before the
\* heading in a CRLF file; three and one "#" and no space after "##"; the
\* heading after a blank first line, with a Weekly Summary.
ReadFiles ==
  { "",
    "## 2024-03-01\n### <1> Goals\n- g\n",
    "  ## 2024-03-01  \n### <1> Goals\n- g\n",
    "## 2024-03-01 notes\n### <1> Goals\n- g\n",
    "x\n## 2024-03-02\n- b\n\n## 2024-03-01\n### <2> Technical Work\n- t\n## 2024-03-01\n- dup\n",
    "\t## 2024-03-01\r\n### <3> Metrics\r\n* 5 c\r\n",
    "### 2024-03-01\n# 2024-03-01\n##2024-03-01\n- a\n",
    "\n## 2024-03-02\n### <8> Weekly Summary\nsum\n" }

InitRead ==
  /\ fileExists \in BOOLEAN
  /\ fileText \in (IF fileExists THEN ReadFiles ELSE {""})
  /\ dirExists = fileExists
  /\ preExists = fileExists
  /\ preText = fileText
  /\ preDir = dirExists
  /\ touched = {}
  /\ proc = <<>>
  /\ order = <<>>
  /\ call = NoCall
  /\ res = NoResult
  /\ ncalls = 0
  /\ mode = "read"
  /\ fnIn \in [date_str : ReadDates]
  /\ fnOut = <<>>

\* One call of read_date_entry on the file.
ReadDateEntry ==
  /\ mode = "read"
  /\ fnOut = <<>>
  /\ fnOut' = <<read_date_entry(fnIn.date_str, fileExists, fileText)>>
  /\ UNCHANGED <<fileExists, fileText, preExists, preText, call, res, ncalls,
                 mode, fnIn, dirExists, preDir, touched, proc, order>>

NextRead == ReadDateEntry

SpecRead == InitRead /\ [][NextRead]_vars

(***************************************************************************)
(* The merge engine and the two deduplication functions on their own: the  *)
(* inputs are drawn in the initial state, one step applies the function.   *)
(***************************************************************************)

\* The variables the file calls use, at rest.
NoFile ==
  /\ fileExists = FALSE
  /\ fileText = ""
  /\ preExists = FALSE
  /\ preText = ""
  /\ call = NoCall
  /\ res = NoResult
  /\ ncalls = 0
  /\ dirExists = FALSE
  /\ preDir = FALSE
  /\ touched = {}
  /\ proc = <<>>
  /\ order = <<>>

\* The bodies of the existing date section given to merge_date_sections.
EntryBodies ==
  { "",
    "### <1> Goals\n- ab\n### <3> Metrics\n- 5 c\n",
    "### <2> Technical Work\n- [abc1234](u) x\n- fix\n### <4> Key Decisions\n- d1\n### <8> Weekly Summary\nold one\nold two\n",
    "### <7> Learnings\n- l1\n### <1> Goals\n- ab\n- xyz\n### <4> Key Decisions\n- d1\n",
    "### <3> Metrics\n- 9 c\n- 5 c\n### <8> Weekly Summary\n\n",
    "### <5> Impact Assessment\n- i1\n### <6> Open Items\n- o1\n### <8> Weekly Summary\nold" }

\* The new contents given to merge_date_sections.
MergeContents ==
  { "### <1> Goals\n- ab\n- ba\n### <2> Technical Work\n- ABC1234: y\n- fix",
    "### <8> Weekly Summary\nnew\n### <3> Metrics\n- 9 c\n### <2> Technical Work\nnote\n* fix",
    "### <7> Learnings\n- l2\n### <6> Open Items\n- o2\n### <5> Impact Assessment\n- i1\n### <4> Key Decisions\n- d2\n### <1> Goals\n- g",
    "plain\n- loose",
    "### <3> Metrics\n### <8> Weekly Summary\n  \n",
    "### <3> Metrics\n- 5 c\n- 7 d\n### <8> Weekly Summary\nnew a\n\nnew b" }

\* The existing entry of a body: what read_date_entry returns for it.
EntryOf(body) == read_date_entry(Date1, TRUE, "## " \o Date1 \o "\n" \o body)

InitMerge ==
  /\ NoFile
  /\ mode = "merge"
  /\ fnIn \in [body : EntryBodies, new_content : MergeContents,
               preserve_lines : BOOLEAN]
  /\ fnOut = <<>>

\* One call of merge_date_sections.
MergeDateSections ==
  /\ mode = "merge"
  /\ fnOut = <<>>
  /\ \E out \in {merge_date_sections(EntryOf(fnIn.body), fnIn.new_content,
                                     fnIn.preserve_lines)} :
       fnOut' = <<[merged_content |-> out[1], total_duplicates |-> out[2]]>>
  /\ UNCHANGED <<fileExists, fileText, preExists, preText, call, res, ncalls,
                 mode, fnIn, dirExists, preDir, touched, proc, order>>

NextMerge == MergeDateSections

SpecMerge == InitMerge /\ [][NextMerge]_vars

\* The longest lists given to the deduplication functions: existing and new
\* together.
MaxBullets == 3

\* The bullets given to _deduplicate_bullets.
BulletPool ==
  {"x y", "X  y ", "y x", "abcdefg", "abcdefgh", "abcdefghi"}

\* The bullets given to _deduplicate_commits.
CommitPool ==
  {"[abc1234](u) x", "ABC1234: y", "see commit AbC1234", "abc12345 - z", "fix",
   "[abc123](u) w"}

\* The pairs of lists over a pool, MaxBullets bullets in all at most.
ListPairs(pool) ==
  UNION {UNION {[existing : [1..k -> pool], new : [1..j -> pool]] :
                  j \in 0..(MaxBullets - k)} :
           k \in 0..MaxBullets}

InitBullets ==
  /\ NoFile
  /\ mode = "bullets"
  /\ fnIn \in ListPairs(BulletPool)
  /\ fnOut = <<>>

\* One call of _deduplicate_bullets.
DeduplicateBullets ==
  /\ mode = "bullets"
  /\ fnOut = <<>>
  /\ \E out \in {_deduplicate_bullets(fnIn.existing, fnIn.new)} :
       fnOut' = <<[merged |-> out[1], duplicates |-> out[2]]>>
  /\ UNCHANGED <<fileExists, fileText, preExists, preText, call, res, ncalls,
                 mode, fnIn, dirExists, preDir, touched, proc, order>>

NextBullets == DeduplicateBullets

SpecBullets == InitBullets /\ [][NextBullets]_vars

InitCommits ==
  /\ NoFile
  /\ mode = "commits"
  /\ fnIn \in ListPairs(CommitPool)
  /\ fnOut = <<>>

\* One call of _deduplicate_commits.
DeduplicateCommits ==
  /\ mode = "commits"
  /\ fnOut = <<>>
  /\ \E out \in {_deduplicate_commits(fnIn.existing, fnIn.new)} :
       fnOut' = <<[merged |-> out[1], duplicates |-> out[2]]>>
  /\ UNCHANGED <<fileExists, fileText, preExists, preText, call, res, ncalls,
                 mode, fnIn, dirExists, preDir, touched, proc, order>>

NextCommits == DeduplicateCommits

SpecCommits == InitCommits /\ [][NextCommits]_vars

(***************************************************************************)
(* The target path of append_to_markdown.  An optional string (an argument *)
(* that may be None, an environment variable that may be unset, a key that *)
(* may be missing from the configuration file) is <<>> or <<s>>.           *)
(***************************************************************************)

\* Python's truth value of an optional string: neither None nor empty.
Truthy(opt) == opt # <<>> /\ opt[1] # ""

\* "value and value.strip()": set, and not blank.
SetAndNotBlank(opt) == Truthy(opt) /\ Strip(opt[1]) # ""

\* config.get_markdown_path(), given SEEV_MD_PATH and the markdown_path key
\* found in the configuration files: the path and the place it came from.
get_markdown_path(seev_md_path, markdown_path) ==
  IF SetAndNotBlank(seev_md_path)
  THEN [value |-> Strip(seev_md_path[1]), from |-> "env"]
  ELSE IF SetAndNotBlank(markdown_path)
  THEN [value |-> Strip(markdown_path[1]), from |-> "config"]
  ELSE [value |-> "WORKLOG.md", from |-> "default"]

\* Path(target), made absolute with Path.cwd(), the working directory /w,
\* when it is relative.
AbsolutePath(target) ==
  IF StartsWith(target, "/") THEN target ELSE "/w" \o "/" \o target

\* "Resolve target path" of append_to_markdown, given its file_path argument,
\* the environment variables GLIN_MD_PATH and SEEV_MD_PATH and the configured
\* markdown_path: the path and the two flags of the result, and the place
\* the path came from.
ResolveTarget(file_path, glin_md_path, seev_md_path, markdown_path) ==
  IF SetAndNotBlank(file_path)
  THEN [path |-> AbsolutePath(Strip(file_path[1])), used_env |-> FALSE,
        defaulted |-> FALSE, from |-> "file_path"]
  ELSE LET target == get_markdown_path(seev_md_path, markdown_path)
           used_env_flag == Truthy(glin_md_path)
       IN [path |-> AbsolutePath(target.value),
           used_env |-> used_env_flag,
           defaulted |-> ~used_env_flag /\ target.value = "WORKLOG.md",
           from |-> target.from]

\* The file_path arguments: None, empty, blank, a relative path with spaces
\* around it, an absolute path.  The values of GLIN_MD_PATH: unset, empty,
\* blank, a path.  The values of SEEV_MD_PATH: unset, blank, a path, the
\* default name.  The markdown_path key of the configuration file: missing,
\* a path, the default name.
InitPath ==
  /\ NoFile
  /\ mode = "path"
  /\ fnIn \in [file_path : {<<>>, <<"">>, <<"  ">>, <<" custom.md ">>, <<"/tmp/custom.md">>},
               GLIN_MD_PATH : {<<>>, <<"">>, <<" ">>, <<"/tmp/glin.md">>},
               SEEV_MD_PATH : {<<>>, <<" ">>, <<"/tmp/seev.md">>, <<"WORKLOG.md">>},
               markdown_path : {<<>>, <<"conf.md">>, <<"WORKLOG.md">>}]
  /\ fnOut = <<>>

\* One successful call of append_to_markdown, seen from its target path.
ResolvePath ==
  /\ mode = "path"
  /\ fnOut = <<>>
  /\ fnOut' = <<ResolveTarget(fnIn.file_path, fnIn.GLIN_MD_PATH,
                              fnIn.SEEV_MD_PATH, fnIn.markdown_path)>>
  /\ UNCHANGED <<fileExists, fileText, preExists, preText, call, res, ncalls,
                 mode, fnIn, dirExists, preDir, touched, proc, order>>

NextPath == ResolvePath

SpecPath == InitPath /\ [][NextPath]_vars

(***************************************************************************)
(* Two calls of append_to_markdown running at once on one file.  Nothing   *)
(* in the code locks the file, so the calls interleave at their filesystem *)
(* calls: read_date_entry's read_text (update mode), the read_text of the  *)
(* branch taken, and write_text, which pathlib makes of an open(mode='w')  *)
(* that truncates the file and a write of the data at offset 0.            *)
(***************************************************************************)

Procs == {"p1", "p2"}

\* The calls: a short line for the first date; a Goals bullet merged into
\* the first date; two longer lines for the second date.
RaceCalls ==
  { [content |-> "x", date_str |-> Date1,
     preserve_lines |-> FALSE, update_mode |-> FALSE],
    [content |-> "### <1> Goals\n- new goal", date_str |-> Date1,
     preserve_lines |-> TRUE, update_mode |-> TRUE],
    [content |-> "a longer line\nsecond", date_str |-> Date2,
     preserve_lines |-> FALSE, update_mode |-> FALSE] }

\* An open(mode='w') that leaves the content of the file in place.
KeptOnOpen(text) == text

\* open(mode='w'): the file is created empty or truncated.
Truncated(text) == ""

\* f.write(data) on a file opened with mode 'w' and closed: data goes to
\* offset 0, over what the file holds by then.
WrittenOver(text, data) ==
  data \o (IF Len(text) > Len(data) THEN Slice(text, Len(data) + 1, Len(text)) ELSE "")

\* The heading of a call's date.
HeadingOf(c) == "## " \o fromisoformat(c.date_str)[1]

\* The files found by the two calls, besides no file at all.  Where a call
\* stands: "entry" before read_date_entry, "merge" before the read_text of
\* the update branch, "append" before the read_text of the non-update path,
\* "write" before write_text opens the file, "opened" before it writes,
\* "done" once it has returned.
InitRace ==
  /\ fileExists \in BOOLEAN
  /\ fileText \in (IF fileExists
                    THEN {"## 2024-03-01\n### <1> Goals\n- ab\n", "# Log\n"}
                    ELSE {""})
  /\ dirExists = TRUE
  /\ preExists = fileExists
  /\ preText = fileText
  /\ preDir = dirExists
  /\ touched = {}
  /\ proc \in [Procs -> {[call |-> c, pc |-> IF c.update_mode THEN "entry" ELSE "append",
                           entry |-> <<>>, pending |-> "", result |-> NoResult] :
                            c \in RaceCalls}]
  /\ order = <<>>
  /\ call = NoCall
  /\ res = NoResult
  /\ ncalls = 0
  /\ mode = "race"
  /\ fnIn = <<>>
  /\ fnOut = <<>>

\* What no step of a call changes.
RaceFrame ==
  UNCHANGED <<preExists, preText, call, res, ncalls, mode, fnIn, fnOut,
              dirExists, preDir, touched>>

\* existing = read_date_entry(date_for_heading, file_path)
ReadEntry(p) ==
  /\ mode = "race"
  /\ proc[p].pc = "entry"
  /\ \E existing \in {read_date_entry(proc[p].call.date_str, fileExists, fileText)} :
       proc' = [proc EXCEPT ![p].entry = <<existing>>,
                            ![p].pc = IF existing.exists THEN "merge" ELSE "append"]
  /\ order' = Append(order, <<p, "read">>)
  /\ UNCHANGED <<fileExists, fileText>>
  /\ RaceFrame

\* The update branch reads the file, merges and builds the new document; it
\* falls through to the non-update path when the heading is not in what it
\* read.
ReadForMerge(p) ==
  /\ mode = "race"
  /\ proc[p].pc = "merge"
  /\ \E doc_lines \in {IF fileExists THEN DocLines(NormalizeNewlines(fileText)) ELSE <<>>} :
       IF FindHeading(doc_lines, HeadingOf(proc[p].call), 1) = 0
       THEN proc' = [proc EXCEPT ![p].pc = "append"]
       ELSE \E out \in {UpdateSection(proc[p].entry[1], proc[p].call.content,
                                      proc[p].call.preserve_lines,
                                      HeadingOf(proc[p].call), doc_lines)} :
              proc' = [proc EXCEPT ![p].pending = out.text,
                                   ![p].result = out.result,
                                   ![p].pc = "write"]
  /\ order' = Append(order, <<p, "read">>)
  /\ UNCHANGED <<fileExists, fileText>>
  /\ RaceFrame

\* The non-update path reads the file and builds the new document.
ReadForAppend(p) ==
  /\ mode = "race"
  /\ proc[p].pc = "append"
  /\ \E out \in {AppendBlock(proc[p].call.content, proc[p].call.preserve_lines,
                             HeadingOf(proc[p].call), fileExists, fileText)} :
       proc' = [proc EXCEPT ![p].pending = out.text,
                            ![p].result = out.result,
                            ![p].pc = IF Succeeded(out.result) THEN "write" ELSE "done"]
  /\ order' = Append(order, <<p, "read">>)
  /\ UNCHANGED <<fileExists, fileText>>
  /\ RaceFrame

\* write_text opens the file.
OpenFile(p) ==
  /\ mode = "race"
  /\ proc[p].pc = "write"
  /\ fileExists' = TRUE
  /\ fileText' = Truncated(fileText)
  /\ proc' = [proc EXCEPT ![p].pc = "opened"]
  /\ order' = Append(order, <<p, "open">>)
  /\ RaceFrame

\* write_text writes the document and closes the file; the call returns.
WriteFile(p) ==
  /\ mode = "race"
  /\ proc[p].pc = "opened"
  /\ fileText' = WrittenOver(fileText, proc[p].pending)
  /\ proc' = [proc EXCEPT ![p].pc = "done"]
  /\ order' = Append(order, <<p, "write">>)
  /\ UNCHANGED fileExists
  /\ RaceFrame

NextRace ==
  \E p \in Procs :
    \/ ReadEntry(p)
    \/ ReadForMerge(p)
    \/ ReadForAppend(p)
    \/ OpenFile(p)
    \/ WriteFile(p)

SpecRace == InitRace /\ [][NextRace]_vars

(***************************************************************************)
(* _is_similar on its own.                                                 *)
(***************************************************************************)

\* The texts compared: empty, blank, the same letters in another order or
\* case, with the words spaced otherwise, six and seven letters of which six
\* are shared, the seven in another order, letters shared with none.
SimilarPool ==
  {"", " \t", "ab", "ba", "AB", "a  b", " a b ", "abcdef", "abcdefg",
   "gfedcba", "xyz"}

\* The thresholds are in hundredths: from 0.0 to 1.0, 0.85 being the default.
InitSimilar ==
  /\ NoFile
  /\ mode = "similar"
  /\ fnIn \in [text1 : SimilarPool, text2 : SimilarPool,
               threshold : {0, 50, DefaultThreshold, 99, 100}]
  /\ fnOut = <<>>

\* One call of _is_similar.
IsSimilar ==
  /\ mode = "similar"
  /\ fnOut = <<>>
  /\ fnOut' = <<_is_similar(fnIn.text1, fnIn.text2, fnIn.threshold)>>
  /\ UNCHANGED <<fileExists, fileText, preExists, preText, call, res, ncalls,
                 mode, fnIn, dirExists, preDir, touched, proc, order>>

NextSimilar == IsSimilar

SpecSimilar == InitSimilar /\ [][NextSimilar]_vars

(***************************************************************************)
(* The worklog file under calls whose content has lines that read as date  *)
(* headings.  order keeps the calls made.                                  *)
(***************************************************************************)

\* At most MaxDateCalls such calls are made on one file.
MaxDateCalls == 2

\* The calls: a heading written as is; a heading in the text of a Weekly
\* Summary, merged; a heading and a line made bullets; an indented heading
\* under Goals, as is; a merge and an append without any heading; a heading
\* under Goals, merged without preserve_lines; Metrics and Technical Work
\* with a line that is no bullet; a level-2 heading that is no date in the
\* text of a Weekly Summary.
DateCalls ==
  { [content |-> "## 2024-03-01", date_str |-> Date1,
     preserve_lines |-> TRUE, update_mode |-> FALSE],
    [content |-> "### <8> Weekly Summary\n## 2024-03-02\nsum", date_str |-> Date2,
     preserve_lines |-> FALSE, update_mode |-> TRUE],
    [content |-> "## 2024-03-01\nx", date_str |-> Date1,
     preserve_lines |-> FALSE, update_mode |-> FALSE],
    [content |-> "### <1> Goals\n  ## 2024-03-02\n- g", date_str |-> Date2,
     preserve_lines |-> TRUE, update_mode |-> TRUE],
    [content |-> "### <1> Goals\n- g\n### <8> Weekly Summary\nsum", date_str |-> Date1,
     preserve_lines |-> TRUE, update_mode |-> TRUE],
    [content |-> "x", date_str |-> Date2,
     preserve_lines |-> TRUE, update_mode |-> FALSE],
    [content |-> "### <1> Goals\n## 2024-03-01\n### <8> Weekly Summary\nsum",
     date_str |-> Date1, preserve_lines |-> FALSE, update_mode |-> TRUE],
    [content |-> "### <3> Metrics\n- 9 c\n### <2> Technical Work\nnote\n* fix",
     date_str |-> Date2, preserve_lines |-> FALSE, update_mode |-> TRUE],
    [content |-> "### <8> Weekly Summary\nsum\n## Plan", date_str |-> Date1,
     preserve_lines |-> FALSE, update_mode |-> TRUE] }

\* The files found before the first call, besides no file at all: each has
\* at most one heading per date.
InitDates ==
  /\ fileExists \in BOOLEAN
  /\ fileText \in (IF fileExists
                    THEN { "",
                           "## 2024-03-01\n\n- a\n",
                           "## 2024-03-02\n### <8> Weekly Summary\nold\n\n## 2024-03-01\n- b\n" }
                    ELSE {""})
  /\ dirExists = TRUE
  /\ preExists = fileExists
  /\ preText = fileText
  /\ preDir = dirExists
  /\ touched = {}
  /\ proc = <<>>
  /\ order = <<>>
  /\ call = NoCall
  /\ res = NoResult
  /\ ncalls = 0
  /\ mode = "dates"
  /\ fnIn = <<>>
  /\ fnOut = <<>>

\* One call of append_to_markdown, no filesystem call failing.
AppendForDates ==
  /\ mode = "dates"
  /\ ncalls < MaxDateCalls
  /\ \E c \in DateCalls :
       \E out \in {CallAppend(c.content, c.date_str, c.preserve_lines,
                              c.update_mode, "none", dirExists, fileExists,
                              fileText)} :
         /\ fileExists' = out.exists
         /\ fileText' = out.text
         /\ dirExists' = out.dir
         /\ touched' = out.touched
         /\ res' = out.result
         /\ call' = [content |-> c.content, content_none |-> FALSE,
                     date_str |-> c.date_str,
                     preserve_lines |-> c.preserve_lines,
                     update_mode |-> c.update_mode,
                     failed |-> out.failed, repeat |-> FALSE]
         /\ order' = Append(order, c)
  /\ preExists' = fileExists
  /\ preText' = fileText
  /\ preDir' = dirExists
  /\ ncalls' = ncalls + 1
  /\ UNCHANGED <<mode, fnIn, fnOut, proc>>

NextDates == AppendForDates

SpecDates == InitDates /\ [][NextDates]_vars

(***************************************************************************)
(* Properties of the calls on the file.                                    *)
(***************************************************************************)

\* The lines of the file before and after the last call, as the code reads
\* them (newlines normalised, the final newline not counted as a line).
PreLines == IF preExists THEN DocLines(NormalizeNewlines(preText)) ELSE <<>>
PostLines == IF fileExists THEN DocLines(NormalizeNewlines(fileText)) ELSE <<>>

\* The same, split at "\n" only: a "\r" stays in its line.
PreRawLines == IF preExists THEN DocLines(preText) ELSE <<>>
PostRawLines == IF fileExists THEN DocLines(fileText) ELSE <<>>

\* The heading of the last call's date.
CallHeading == "## " \o call.date_str

\* The last call merged into an existing section.
Updated == Succeeded(res) /\ res.update_mode_used

\* The sections of the last call's date before and after the call.
PreSections == read_date_entry(call.date_str, preExists, preText).sections
PostSections == read_date_entry(call.date_str, fileExists, fileText).sections

\* The new content of the last call, parsed as merge_date_sections does.
CallSections == ParseNewContent(call.content, call.preserve_lines)

\* The bullets of a list with, or without, an extractable commit hash.
RECURSIVE WithHash(_)
WithHash(bullets) ==
  IF bullets = <<>> THEN <<>>
  ELSE (IF _extract_commit_hash(bullets[1]) # <<>> THEN <<bullets[1]>> ELSE <<>>)
       \o WithHash(Tail(bullets))

RECURSIVE WithoutHash(_)
WithoutHash(bullets) ==
  IF bullets = <<>> THEN <<>>
  ELSE (IF _extract_commit_hash(bullets[1]) = <<>> THEN <<bullets[1]>> ELSE <<>>)
       \o WithoutHash(Tail(bullets))

\* C1 as stated: a second update-mode call with the same content adds no
\* bullet to the section, and its deduplicated_count is the number of
\* bullets in the content.
C1_SecondCallAddsNothing ==
  (call.repeat /\ Updated) =>
    /\ \A k \in 1..Len(BulletKeys) :
         PostSections[BulletKeys[k]] = PreSections[BulletKeys[k]]
    /\ res.deduplicated_count = ExistingBulletCount(CallSections)

\* C1, amended: after a second update-mode call with the same content the
\* section has the bullets it had after the first call, except that every
\* Technical Work bullet of the content without an extractable commit hash
\* is appended once more; deduplicated_count is the number of bullets of the
\* content under Goals, Key Decisions, Impact Assessment, Open Items and
\* Learnings plus the Technical Work bullets that carry a commit hash
\* (Metrics bullets are replaced, not counted).
C1_SecondCallIdempotentByHash ==
  (call.repeat /\ Updated) =>
    /\ \A key \in {"goals", "metrics", "decisions", "impact", "open_items",
                   "learnings"} :
         PostSections[key] = PreSections[key]
    /\ PostSections.technical
         = PreSections.technical \o WithoutHash(CallSections.technical)
    /\ res.deduplicated_count
         = Len(CallSections.goals) + Len(CallSections.decisions)
           + Len(CallSections.impact) + Len(CallSections.open_items)
           + Len(CallSections.learnings) + Len(WithHash(CallSections.technical))

\* A second identical update-mode call that found duplicates under Goals and
\* under Technical Work.
C1_Witness ==
  /\ call.repeat
  /\ Updated
  /\ res.deduplicated_count >= 3
  /\ CallSections.goals # <<>>
  /\ WithHash(CallSections.technical) # <<>>

\* Where the section of the call's date started and ended before the call.
PreHeadingIdx == FindHeading(PreLines, CallHeading, 1)
PreEndIdx == SectionEnd(PreLines, PreHeadingIdx + 1)
PreRawHeadingIdx == FindHeading(PreRawLines, CallHeading, 1)
PreRawEndIdx == SectionEnd(PreRawLines, PreRawHeadingIdx + 1)

\* The last n elements of a sequence.
LastN(seq, n) == SubSeq(seq, Len(seq) - n + 1, Len(seq))

\* C2 as stated: an update-mode call leaves every line up to the heading of
\* its date, and every line from the next level-2 heading on, byte-identical.
C2_OtherSectionsByteIdentical ==
  Updated =>
    LET tail == SubSeq(PreRawLines, PreRawEndIdx, Len(PreRawLines)) IN
    /\ Len(PostRawLines) >= PreRawHeadingIdx + Len(tail)
    /\ SubSeq(PostRawLines, 1, PreRawHeadingIdx)
         = SubSeq(PreRawLines, 1, PreRawHeadingIdx)
    /\ LastN(PostRawLines, Len(tail)) = tail

\* The lines from the next level-2 heading on, less the last of them when
\* it is empty.
PreTailKept ==
  LET tail == SubSeq(PreLines, PreEndIdx, Len(PreLines)) IN
  IF tail # <<>> /\ tail[Len(tail)] = "" THEN SubSeq(tail, 1, Len(tail) - 1) ELSE tail

\* C2, amended: an update-mode call leaves every line up to the heading of
\* its date, and every line from the next level-2 heading on, unchanged once
\* CRLF and CR are read as LF, except that an empty last line of the file is
\* dropped.
C2_OtherSectionsKeptUpToNewlines ==
  Updated =>
    /\ Len(PostLines) >= PreHeadingIdx + Len(PreTailKept)
    /\ SubSeq(PostLines, 1, PreHeadingIdx) = SubSeq(PreLines, 1, PreHeadingIdx)
    /\ LastN(PostLines, Len(PreTailKept)) = PreTailKept

\* An update of a date that has lines before it or another date after it.
C2_Witness ==
  /\ Updated
  /\ PreTailKept # <<>>
  /\ PostLines # PreLines

\* The bullet texts of the lines: "- " or "* ", then text.
BulletTexts(lines) ==
  {Strip(DropFirst(Strip(lines[i]), 2)) :
     i \in {j \in 1..Len(lines) : IsBulletLine(Strip(lines[j]))}}

\* The lines of the section of the call's date, before and after the call.
PreSectionLines == SubSeq(PreLines, PreHeadingIdx + 1, PreEndIdx - 1)
PostSectionLines ==
  LET h == FindHeading(PostLines, CallHeading, 1) IN
  SubSeq(PostLines, h + 1, SectionEnd(PostLines, h + 1) - 1)

\* The lines of a section that come before its first ### subsection.
RECURSIVE BeforeSubsections(_)
BeforeSubsections(lines) ==
  IF lines = <<>> \/ matched_section(lines[1]) # "" THEN <<>>
  ELSE <<lines[1]>> \o BeforeSubsections(Tail(lines))

\* The elements of a sequence.
Range(seq) == {seq[i] : i \in 1..Len(seq)}

\* C3: an update-mode call loses no bullet of the date section, Metrics and
\* Weekly Summary aside: the bullets written directly under the heading and
\* those of the other subsections are still in the section after the call.
C3_UpdateKeepsEveryBullet ==
  Updated =>
    (BulletTexts(BeforeSubsections(PreSectionLines))
     \cup Range(PreSections.goals) \cup Range(PreSections.technical)
     \cup Range(PreSections.decisions) \cup Range(PreSections.impact)
     \cup Range(PreSections.open_items) \cup Range(PreSections.learnings))
      \subseteq BulletTexts(PostSectionLines)

\* [ln for ln in lines if ln.strip() != ""]
RECURSIVE NonBlank(_)
NonBlank(lines) ==
  IF lines = <<>> THEN <<>>
  ELSE (IF Strip(lines[1]) = "" THEN <<>> ELSE <<lines[1]>>) \o NonBlank(Tail(lines))

\* What C10 expects a non-blank input line to be written as.
ExpectedLine(line) == IF call.preserve_lines THEN RStrip(line) ELSE "- " \o Strip(line)

\* The non-blank lines of the last call's content.
CallLines == NonBlank(SplitLines(NormalizeNewlines(call.content)))

\* The last call had to take the non-update path.
NonUpdateCall ==
  /\ ncalls > 0
  /\ Succeeded(res)
  /\ ~call.update_mode \/ PreHeadingIdx = 0

\* C10: a call on the non-update path writes every non-blank input line, in
\* order, as one line of its own ("- " and the trimmed line, or the line
\* itself under preserve_lines), whatever the section already holds; what
\* was in the file stays, in order; bullets_added and new_bullets_added are
\* the number of non-blank input lines, deduplicated_count is 0 and
\* update_mode_used is false.
C10_NonUpdateInsertsEveryLine ==
  NonUpdateCall =>
    /\ ~res.update_mode_used
    /\ res.deduplicated_count = 0
    /\ res.bullets_added = Len(CallLines)
    /\ res.new_bullets_added = Len(CallLines)
    /\ \E k \in 0..(Len(PostLines) - Len(CallLines)) :
         /\ \A i \in 1..Len(CallLines) : PostLines[k + i] = ExpectedLine(CallLines[i])
         /\ NonBlank(SubSeq(PostLines, 1, k)
                     \o SubSeq(PostLines, k + Len(CallLines) + 1, Len(PostLines)))
              \in {NonBlank(PreLines), NonBlank(PreLines) \o <<CallHeading>>}

\* A non-update call that wrote a bullet the section already held.
C10_Witness ==
  /\ NonUpdateCall
  /\ PreHeadingIdx # 0
  /\ ~call.preserve_lines
  /\ Len(CallLines) >= 2
  /\ ExpectedLine(CallLines[1]) \in Range(PreSectionLines)

(***************************************************************************)
(* Properties of merge_date_sections.                                      *)
(***************************************************************************)

\* merge_date_sections has returned.
Merged == mode = "merge" /\ fnOut # <<>>

\* The sections of the existing entry and of the new content of the merge.
MergeExisting == EntryOf(fnIn.body).sections
MergeNew == ParseNewContent(fnIn.new_content, fnIn.preserve_lines)

\* The lines of the returned fragment, and the sections read back from them.
FragmentLines == SplitLines(fnOut[1].merged_content)
FragmentSections == ParseEntryFrom(FragmentLines, 1, "", <<>>, EmptySections)

\* The subsections merged additively.
AdditiveKeys == {"goals", "technical", "decisions", "impact", "open_items", "learnings"}

\* seq begins with prefix.
BeginsWith(seq, prefix) ==
  Len(seq) >= Len(prefix) /\ SubSeq(seq, 1, Len(prefix)) = prefix

\* C4: for goals, technical, decisions, impact, open_items and learnings the
\* merged bullet list begins with the existing bullet list, unchanged and in
\* order; with no new bullets for a subsection the merged list is the
\* existing one.
C4_MergeKeepsExistingAsPrefix ==
  Merged =>
    \A key \in AdditiveKeys :
      /\ BeginsWith(FragmentSections[key], MergeExisting[key])
      /\ MergeNew[key] = <<>> => FragmentSections[key] = MergeExisting[key]

\* A merge that added a bullet behind the existing ones of a subsection and
\* left another subsection, absent from the new content, as it was.
C4_Witness ==
  /\ Merged
  /\ \E key \in AdditiveKeys :
       /\ MergeExisting[key] # <<>>
       /\ Len(FragmentSections[key]) > Len(MergeExisting[key])
  /\ \E key \in AdditiveKeys :
       /\ MergeExisting[key] # <<>>
       /\ MergeNew[key] = <<>>

\* The new bullets of a subsection that the merge dropped.
DroppedIn(key) ==
  Len(MergeExisting[key]) + Len(MergeNew[key]) - Len(FragmentSections[key])

\* C5: Metrics are replaced: with at least one new Metrics bullet the merged
\* Metrics list is the new list exactly, with none it is the existing list;
\* the duplicate count is made of the bullets dropped in the other
\* subsections only.
C5_MetricsReplaced ==
  Merged =>
    /\ FragmentSections.metrics
         = (IF MergeNew.metrics # <<>> THEN MergeNew.metrics ELSE MergeExisting.metrics)
    /\ fnOut[1].total_duplicates
         = DroppedIn("goals") + DroppedIn("technical") + DroppedIn("decisions")
           + DroppedIn("impact") + DroppedIn("open_items") + DroppedIn("learnings")

\* A merge whose new Metrics repeat one existing Metrics bullet and leave
\* out another.
C5_Witness ==
  /\ Merged
  /\ Range(MergeNew.metrics) \cap Range(MergeExisting.metrics) # {}
  /\ Range(MergeExisting.metrics) \ Range(MergeNew.metrics) # {}
  /\ MergeNew.metrics # <<>>
  /\ FragmentSections.metrics = MergeNew.metrics

\* A summary that is there: not None and not empty.
HasText(summary) == summary # <<>> /\ summary[1] # ""

\* C6: with non-empty new Weekly Summary text the merged summary is that
\* text and none of the old one; with no new summary, or an empty one, the
\* existing summary, if any, is emitted unchanged.
C6_WeeklySummaryReplacedOrKept ==
  Merged =>
    FragmentSections.weekly_summary
      = (IF HasText(MergeNew.weekly_summary) THEN MergeNew.weekly_summary
         ELSE IF HasText(MergeExisting.weekly_summary) THEN MergeExisting.weekly_summary
         ELSE <<>>)

\* A merge that replaced an existing summary by a new one of several lines.
C6_Witness ==
  /\ Merged
  /\ HasText(MergeExisting.weekly_summary)
  /\ HasText(MergeNew.weekly_summary)
  /\ MergeNew.weekly_summary # MergeExisting.weekly_summary
  /\ FragmentSections.weekly_summary = <<"new a\n\nnew b">>

\* The fixed order of the subsections.
CanonicalOrder ==
  <<"goals", "technical", "metrics", "decisions", "impact", "open_items",
    "learnings", "weekly_summary">>

\* The place of a subsection in the fixed order.
CanonicalIndex(key) == CHOOSE k \in 1..Len(CanonicalOrder) : CanonicalOrder[k] = key

\* The subsections whose headings the lines hold, in the order of the lines.
RECURSIVE HeadingKeys(_)
HeadingKeys(lines) ==
  IF lines = <<>> THEN <<>>
  ELSE (IF matched_section(lines[1]) # "" THEN <<matched_section(lines[1])>> ELSE <<>>)
       \o HeadingKeys(Tail(lines))

\* The subsections that are present after the merge.
PresentKeys ==
  {key \in AdditiveKeys \cup {"metrics"} :
     MergeExisting[key] # <<>> \/ MergeNew[key] # <<>>}
  \cup (IF HasText(MergeExisting.weekly_summary) \/ HasText(MergeNew.weekly_summary)
        THEN {"weekly_summary"} ELSE {})

\* C7: whatever the order of the subsections in the input, the fragment has
\* the headings of the present subsections in the order Goals, Technical
\* Work, Metrics, Key Decisions, Impact Assessment, Open Items, Learnings,
\* Weekly Summary, each once.
C7_CanonicalSectionOrder ==
  Merged =>
    LET keys == HeadingKeys(FragmentLines) IN
    /\ Range(keys) = PresentKeys
    /\ \A i \in 1..Len(keys), j \in 1..Len(keys) :
         i < j => CanonicalIndex(keys[i]) < CanonicalIndex(keys[j])

\* A merge of inputs that have Learnings before Goals, with Metrics and
\* later subsections present.
C7_Witness ==
  /\ Merged
  /\ HeadingKeys(SplitLines(fnIn.body)) = <<"learnings", "goals", "decisions">>
  /\ HeadingKeys(SplitLines(fnIn.new_content)) = <<"weekly_summary", "metrics", "technical">>
  /\ Len(HeadingKeys(FragmentLines)) = 6

(***************************************************************************)
(* Properties of the deduplication functions.                              *)
(***************************************************************************)

\* The elements of seq at the indices in K, in order.
RECURSIVE Restrict(_, _, _)
Restrict(seq, K, i) ==
  IF i > Len(seq) THEN <<>>
  ELSE (IF i \in K THEN <<seq[i]>> ELSE <<>>) \o Restrict(seq, K, i + 1)

\* The hash a bullet of CommitPool carries, in lower case, whatever its
\* format: <<hash>>, or <<>> for none.
PoolHash(bullet) ==
  CASE bullet = "[abc1234](u) x" -> <<"abc1234">>
    [] bullet = "ABC1234: y" -> <<"abc1234">>
    [] bullet = "see commit AbC1234" -> <<"abc1234">>
    [] bullet = "abc12345 - z" -> <<"abc12345">>
    [] OTHER -> <<>>

\* _deduplicate_commits has returned.
CommitsDone == mode = "commits" /\ fnOut # <<>>

\* The new bullets _deduplicate_commits has to keep: those without a hash,
\* and those whose hash no existing bullet and no earlier new bullet has.
CommitsToKeep ==
  {i \in 1..Len(fnIn.new) :
     \/ PoolHash(fnIn.new[i]) = <<>>
     \/ /\ \A j \in 1..Len(fnIn.existing) : PoolHash(fnIn.existing[j]) # PoolHash(fnIn.new[i])
        /\ \A j \in 1..(i - 1) : PoolHash(fnIn.new[j]) # PoolHash(fnIn.new[i])}

\* C8: _deduplicate_commits compares bullets by their commit hash, without
\* regard to case or to the bullet format: the result is the existing
\* bullets with their text, then, in input order, the new bullets that have
\* no hash or a hash not seen in an existing or an earlier new bullet; every
\* other new bullet is dropped and counted once.
C8_CommitsDedupedByHash ==
  CommitsDone =>
    /\ fnOut[1].merged = fnIn.existing \o Restrict(fnIn.new, CommitsToKeep, 1)
    /\ fnOut[1].duplicates = Len(fnIn.new) - Cardinality(CommitsToKeep)

\* A call that dropped a bullet whose hash an existing bullet has in another
\* case and format, kept a bullet without hash and one with a new hash.
C8_Witness ==
  /\ CommitsDone
  /\ fnIn.existing = <<"[abc1234](u) x">>
  /\ fnIn.new = <<"ABC1234: y", "fix">>
  /\ fnOut[1].merged = <<"[abc1234](u) x", "fix">>
  /\ fnOut[1].duplicates = 1

\* _deduplicate_bullets has returned.
BulletsDone == mode = "bullets" /\ fnOut # <<>>

\* Similar under the default threshold.
Similar(a, b) == _is_similar(a, b, DefaultThreshold)

\* K is the set of new bullets to keep: a new bullet is kept exactly when
\* it is similar to no existing bullet and to no kept new bullet before it.
IsKeptSet(K) ==
  \A i \in 1..Len(fnIn.new) :
    i \in K <=>
      /\ \A j \in 1..Len(fnIn.existing) : ~Similar(fnIn.new[i], fnIn.existing[j])
      /\ \A j \in K : j < i => ~Similar(fnIn.new[i], fnIn.new[j])

\* C9: _deduplicate_bullets returns the existing bullets, whole and in
\* order, then exactly the new bullets, in input order, that are similar to
\* no bullet accumulated before them; duplicates is the number of new
\* bullets dropped, so that len(merged) + duplicates = len(existing) +
\* len(new); no kept new bullet is similar to a bullet before it in merged.
C9_BulletsDedupedBySimilarity ==
  BulletsDone =>
    LET merged == fnOut[1].merged
        duplicates == fnOut[1].duplicates
    IN  /\ \E K \in SUBSET (1..Len(fnIn.new)) :
             /\ IsKeptSet(K)
             /\ merged = fnIn.existing \o Restrict(fnIn.new, K, 1)
             /\ duplicates = Len(fnIn.new) - Cardinality(K)
        /\ Len(merged) + duplicates = Len(fnIn.existing) + Len(fnIn.new)
        /\ \A p \in (Len(fnIn.existing) + 1)..Len(merged) :
             \A q \in 1..(p - 1) : ~Similar(merged[p], merged[q])

\* A call that kept a new bullet and dropped a later one that is similar to
\* it and to no existing bullet.
C9_Witness ==
  /\ BulletsDone
  /\ fnIn.existing = <<"x y">>
  /\ fnIn.new = <<"abcdefg", "abcdefgh">>
  /\ fnOut[1].merged = <<"x y", "abcdefg">>
  /\ fnOut[1].duplicates = 1

(***************************************************************************)
(* Properties of the records append_to_markdown returns and of the file    *)
(* it writes.                                                              *)
(***************************************************************************)

\* C11: for every successful call, line_numbers_added is as long as
\* content_added and the line of the written file with the 1-based number
\* line_numbers_added[i] is content_added[i].
C11_LineNumbersPointAtContent ==
  (ncalls > 0 /\ Succeeded(res)) =>
    /\ Len(res.line_numbers_added) = Len(res.content_added)
    /\ \A i \in 1..Len(res.content_added) :
         /\ res.line_numbers_added[i] \in 1..Len(PostLines)
         /\ PostLines[res.line_numbers_added[i]] = res.content_added[i]

\* The number of lines that read as the heading.
HeadingCount(lines, heading) ==
  Cardinality({i \in 1..Len(lines) : Strip(lines[i]) = heading})

\* The blank separator line C12 expects before a new heading.
Separator(lines) ==
  IF lines # <<>> /\ Strip(lines[Len(lines)]) # "" THEN <<"">> ELSE <<>>

\* The lines C10 and C12 expect the content of the last call to be written as.
ExpectedLines == [i \in 1..Len(CallLines) |-> ExpectedLine(CallLines[i])]

AppendedUnderExisting ==
  /\ ncalls > 0
  /\ Succeeded(res)
  /\ ~res.update_mode_used
  /\ PreHeadingIdx # 0

\* The document before the call with the new lines put right before line n,
\* a blank line before and after them or not.
InsertedBefore(n) ==
  {SubSeq(PreLines, 1, n - 1) \o lead \o ExpectedLines \o trail
   \o SubSeq(PreLines, n, Len(PreLines)) :
     lead \in {<<>>, <<"">>}, trail \in {<<>>, <<"">>}}

\* C13 as stated: on the non-update path under an existing heading the new
\* lines are inserted right before the next level-2 heading after the target
\* heading, or at the end of the document when there is none.
C13_InsertedBeforeNextDate ==
  AppendedUnderExisting => PostLines \in InsertedBefore(PreEndIdx)

\* The first line after the target heading whose first non-blank character
\* is "#", or the line after the last.
PreNextHashLine ==
  Min({i \in (PreHeadingIdx + 1)..Len(PreLines) :
         CharAt(LStrip(PreLines[i]), 1) = "#"}
      \cup {Len(PreLines) + 1})

\* C13, amended: on the non-update path under an existing heading the new
\* lines are inserted right before the first line after the target heading
\* that starts with "#" (a heading of any level, the section's own first ###
\* subsection included), or at the end of the document when there is none;
\* that line is never after the next level-2 heading, so the new lines are
\* never inside or after a later date section.
C13_InsertedBeforeNextHeading ==
  AppendedUnderExisting =>
    /\ PostLines \in InsertedBefore(PreNextHashLine)
    /\ PreNextHashLine <= PreEndIdx

\* New lines inserted above the first ### subsection of their own date
\* section, which has another date section after it.
C13_Witness ==
  /\ AppendedUnderExisting
  /\ PreNextHashLine < PreEndIdx
  /\ PreEndIdx <= Len(PreLines)
  /\ matched_section(PreLines[PreNextHashLine]) # ""

\* The text ends with exactly one newline: its last line is not blank and one
\* "\n" follows it.
EndsWithOneNewline(text) ==
  LET lines == SplitLines(text) IN
  /\ Len(lines) >= 2
  /\ lines[Len(lines)] = ""
  /\ Strip(lines[Len(lines) - 1]) # ""

\* C14: after every successful write, on either path, the file ends with
\* exactly one newline, whatever blank lines the file ended with before.
C14_EndsWithOneNewline ==
  (ncalls > 0 /\ Succeeded(res)) => EndsWithOneNewline(fileText)

\* The text has a carriage return in it.
HasCR(text) == "\r" \in CharSet(text)

\* C15: after every successful write, on either path, the file has no CR in
\* it, whatever CRLF or lone CR the file or the content had; as every later
\* successful call leaves the file so again, none brings a CR back.
C15_NoCarriageReturn ==
  (ncalls > 0 /\ Succeeded(res)) => ~HasCR(fileText)

\* A successful call with CRLF and a lone CR in its content, kept line by
\* line, on a file that had CRLF line endings.
C15_Witness ==
  /\ ncalls > 0
  /\ Succeeded(res)
  /\ HasCR(preText)
  /\ HasCR(call.content)
  /\ call.preserve_lines
  /\ ~HasCR(fileText)

\* What the last call would have done with update_mode off.
PlainAppend ==
  append_to_markdown(call.content, call.date_str, call.preserve_lines, FALSE,
                     preExists, preText)

\* The fragment merge_date_sections makes of the section before the call
\* and the content of the call, as lines, leading blank lines dropped.
MergedFragment ==
  DropLeadingBlank(SplitLines(
    merge_date_sections(read_date_entry(call.date_str, preExists, preText),
                        call.content, call.preserve_lines)[1]))

\* C19: in update mode, when the document has no section for the date, the
\* call does exactly what the same call does with update_mode off: it adds
\* the heading, writes the content lines unparsed and unmerged, and returns
\* update_mode_used = false, existing_bullets_preserved = 0 and
\* deduplicated_count = 0.  update_mode_used = true is returned only when
\* the section was there and was replaced by the merged fragment (a blank
\* line, the fragment, and a blank line when another date follows).
C19_UpdateFallsThroughWithoutSection ==
  /\ (ncalls > 0 /\ call.update_mode /\ PreHeadingIdx = 0) =>
       /\ res = PlainAppend.result
       /\ fileExists = PlainAppend.exists
       /\ fileText = PlainAppend.text
       /\ res.heading_added
       /\ res.content_added = ExpectedLines
       /\ ~res.update_mode_used
       /\ res.existing_bullets_preserved = 0
       /\ res.deduplicated_count = 0
  /\ Updated =>
       /\ call.update_mode
       /\ PreHeadingIdx # 0
       /\ res.content_added = MergedFragment
       /\ \/ PostSectionLines \in {<<"">> \o MergedFragment,
                                  <<"">> \o MergedFragment \o <<"">>}
          \/ MergedFragment = <<>> /\ PostSectionLines = <<>>

\* An update-mode call with subsection-tagged content on a document that has
\* other dates only: the heading is added and the tagged lines are written
\* as bullets, unmerged.
C19_Witness ==
  /\ ncalls > 0
  /\ call.update_mode
  /\ PreHeadingIdx = 0
  /\ PreLines # <<>>
  /\ ~call.preserve_lines
  /\ Succeeded(res)
  /\ ~res.update_mode_used
  /\ \E i \in 1..Len(res.content_added) :
       matched_section(DropFirst(res.content_added[i], 2)) # ""

(***************************************************************************)
(* Properties of the calls that are refused or that fail.                  *)
(***************************************************************************)

\* The file and its parent directory are as they were before the last call.
FilesystemUnchanged ==
  /\ fileExists = preExists
  /\ fileText = preText
  /\ dirExists = preDir

\* The content of the last call was None, empty or blank.
BlankContent == call.content_none \/ Strip(call.content) = ""

\* C16: a call with content that is None, empty or made of whitespace and
\* blank lines only returns the error record that says content cannot be
\* empty, in every mode and for every date, and makes no filesystem call:
\* no file or directory is created, read or modified.
C16_BlankContentRefusedFirst ==
  (ncalls > 0 /\ BlankContent) =>
    /\ res = [error |-> "content is required and cannot be empty"]
    /\ touched = {}
    /\ FilesystemUnchanged

\* A call in update mode with blank lines for content and a date that does
\* not exist, on a path whose parent directory is missing: refused, and the
\* directory is still missing.
C16_Witness ==
  /\ ncalls > 0
  /\ BlankContent
  /\ ~call.content_none
  /\ call.content # ""
  /\ call.update_mode
  /\ fromisoformat(call.date_str) = <<>>
  /\ ~preDir
  /\ ~dirExists
  /\ "error" \in DOMAIN res

\* date_str is a calendar date written YYYY-MM-DD.
IsCalendarDateYMD(date_str) ==
  IsExtendedForm(date_str) /\ fromisoformat(date_str) # <<>>

\* C17: a call with content and a date_str that is not a calendar date
\* written YYYY-MM-DD returns {error: "date_str must be in YYYY-MM-DD format"}
\* and neither creates nor modifies the file, in update mode or not, when no
\* filesystem call fails; read_date_entry returns exists = false for that
\* date_str.
C17_InvalidDateRefused ==
  (ncalls > 0 /\ ~BlankContent /\ call.failed = "none"
   /\ ~IsCalendarDateYMD(call.date_str)) =>
    /\ res = [error |-> "date_str must be in YYYY-MM-DD format"]
    /\ fileExists = preExists
    /\ fileText = preText
    /\ ~read_date_entry(call.date_str, preExists, preText).exists

\* C18: no call lets an exception through.  Every outcome is a success
\* record with ok = true or an error record, and a failure of mkdir, of
\* read_text or of write_text gives the error record "Failed to append to
\* markdown: <cause>".
C18_EveryOutcomeIsARecord ==
  ncalls > 0 =>
    /\ \/ Succeeded(res) /\ res.ok
       \/ DOMAIN res = {"error"}
    /\ call.failed # "none" =>
         /\ DOMAIN res = {"error"}
         /\ StartsWith(res.error, "Failed to append to markdown: ")
         /\ Len(res.error) > Len("Failed to append to markdown: ")

\* An update-mode call whose write_text failed once the file was truncated:
\* the file is empty and the caller has an error record.
C18_Witness ==
  /\ ncalls > 0
  /\ call.failed = "write"
  /\ call.update_mode
  /\ preText # ""
  /\ fileText = ""
  /\ "error" \in DOMAIN res

(***************************************************************************)
(* Properties of read_date_entry.                                          *)
(***************************************************************************)

\* read_date_entry has returned.
ReadDone == mode = "read" /\ fnOut # <<>>

\* The lines of the file read, CRLF and CR read as LF.
ReadLines == IF fileExists THEN SplitLines(NormalizeNewlines(fileText)) ELSE <<>>

\* What read_date_entry returns besides the date when there is no entry.
IsNoEntry(entry) ==
  /\ ~entry.exists
  /\ entry.heading_line = 0
  /\ entry.sections = EmptySections
  /\ entry.raw_content = ""

\* The numbers of the lines that are exactly "## " and the date asked for.
ExactHeadingLines ==
  {i \in 1..Len(ReadLines) : ReadLines[i] = "## " \o fnIn.date_str}

StrippedHeadingLines ==
  {i \in 1..Len(ReadLines) :
     /\ fromisoformat(fnIn.date_str) # <<>>
     /\ Strip(ReadLines[i]) = "## " \o fromisoformat(fnIn.date_str)[1]}

PathDone == mode = "path" /\ fnOut # <<>>

\* No usable file_path argument was given.
NoFilePath == ~SetAndNotBlank(fnIn.file_path)

\* The claim read with the environment variable override as its override:
\* without file_path and with the variable set the path is the variable's
\* and used_env is true; used_env is true only when the path came from the
\* variable, defaulted only when it came from the built-in default.
FlagsAgree(override) ==
  /\ (NoFilePath /\ SetAndNotBlank(override))
       => /\ fnOut[1].path = AbsolutePath(Strip(override[1]))
          /\ fnOut[1].used_env
  /\ fnOut[1].used_env
       => /\ NoFilePath
          /\ SetAndNotBlank(override)
          /\ fnOut[1].path = AbsolutePath(Strip(override[1]))
  /\ fnOut[1].defaulted
       => /\ NoFilePath
          /\ fnOut[1].from = "default"

\* C21: the result flags agree with the resolution of the target path, file_path
\* argument > environment override > configured markdown_path > WORKLOG.md,
\* the override being GLIN_MD_PATH (as documented and tested) or SEEV_MD_PATH
\* (as get_markdown_path reads it).
C21_FlagsAgreeWithResolution ==
  PathDone => (FlagsAgree(fnIn.GLIN_MD_PATH) \/ FlagsAgree(fnIn.SEEV_MD_PATH))

(***************************************************************************)
(* Properties of two calls running at once.                                *)
(***************************************************************************)

\* Both calls have returned.
BothDone == mode = "race" /\ \A p \in Procs : proc[p].pc = "done"

\* Every read of the file by either call came before either call opened it
\* for writing.
ReadsBeforeWrites ==
  \A i, j \in 1..Len(order) :
    (order[i][2] = "read" /\ order[j][2] = "open") => i < j

\* The two write_text calls did not overlap: the one that opened the file
\* first had written it before the other opened it.
WritesApart ==
  \A i, j \in 1..Len(order) :
    (i < j /\ order[i][2] = "open" /\ order[j][2] = "open")
      => \E k \in (i + 1)..(j - 1) : order[k] = <<order[i][1], "write">>

\* The call that wrote last.
LastWriter == order[Len(order)][1]

\* What a call makes of the file found before the two calls, when it runs
\* alone.
Alone(c) ==
  append_to_markdown(c.content, c.date_str, c.preserve_lines, c.update_mode,
                     preExists, preText)

\* The last writer wins: both calls return ok and the file is the document
\* of the call that wrote last, which is the document that call makes of the
\* file when the other call never runs.
LastWriterWins ==
  /\ \A p \in Procs : Succeeded(proc[p].result)
  /\ fileText = proc[LastWriter].pending
  /\ fileText = Alone(proc[LastWriter].call).text

\* C22 as stated: when both calls read the file before either writes it,
\* both return ok and the final document is the one written last, without
\* the lines the other call inserted.
C22_LastWriterWins == (BothDone /\ ReadsBeforeWrites) => LastWriterWins

\* C22, amended: the same when, besides, the two write_text calls do not
\* overlap.
C22_LastWriterWinsWritesApart ==
  (BothDone /\ ReadsBeforeWrites /\ WritesApart) => LastWriterWins

\* The lines of the file once both calls are done.
RaceLines == DocLines(NormalizeNewlines(fileText))

\* Both calls read before either wrote, the writes did not overlap, and a
\* line the first writer inserted is in no line of the final document.
C22_Witness ==
  /\ BothDone
  /\ ReadsBeforeWrites
  /\ WritesApart
  /\ \E p \in Procs \ {LastWriter} :
       /\ Succeeded(proc[p].result)
       /\ \E k \in 1..Len(proc[p].result.content_added) :
            /\ proc[p].result.content_added[k] # ""
            /\ \A n \in 1..Len(RaceLines) :
                 RaceLines[n] # proc[p].result.content_added[k]

(***************************************************************************)
(* Properties of the counters of an update-mode call.                      *)
(***************************************************************************)

\* The merged sections the last call returned in content_added.
ResultSections == ParseEntryFrom(res.content_added, 1, "", <<>>, EmptySections)

\* The incoming bullets of a subsection that the last call dropped: those of
\* the section before and of the content, less those it returned.
DroppedBy(key) ==
  Len(PreSections[key]) + Len(CallSections[key]) - Len(ResultSections[key])

\* The incoming bullets of the six subsections that are merged additively.
IncomingAdditive ==
  Len(CallSections.goals) + Len(CallSections.technical)
  + Len(CallSections.decisions) + Len(CallSections.impact)
  + Len(CallSections.open_items) + Len(CallSections.learnings)

\* No incoming bullet is a duplicate: outside Technical Work none is similar
\* to an existing bullet of its subsection or to an earlier incoming one; in
\* Technical Work none carries the commit hash of an existing bullet or of
\* an earlier incoming one.
NoIncomingDuplicate ==
  /\ \A key \in AdditiveKeys \ {"technical"} :
       \A i \in 1..Len(CallSections[key]) :
         /\ \A j \in 1..Len(PreSections[key]) :
              ~_is_similar(CallSections[key][i], PreSections[key][j], DefaultThreshold)
         /\ \A j \in 1..(i - 1) :
              ~_is_similar(CallSections[key][i], CallSections[key][j], DefaultThreshold)
  /\ \A i \in 1..Len(CallSections.technical) :
       _extract_commit_hash(CallSections.technical[i]) # <<>>
         => /\ \A j \in 1..Len(PreSections.technical) :
                 _extract_commit_hash(PreSections.technical[j])
                   # _extract_commit_hash(CallSections.technical[i])
            /\ \A j \in 1..(i - 1) :
                 _extract_commit_hash(CallSections.technical[j])
                   # _extract_commit_hash(CallSections.technical[i])

\* C23: the deduplicated_count of an update-mode merge is the number of
\* incoming bullets dropped from Goals, Technical Work, Key Decisions,
\* Impact Assessment, Open Items and Learnings together; Metrics and Weekly
\* Summary add nothing to it, and it is 0 when no incoming bullet is a
\* duplicate.
C23_DeduplicatedCountIsDropped ==
  Updated =>
    /\ res.deduplicated_count
         = DroppedBy("goals") + DroppedBy("technical") + DroppedBy("decisions")
           + DroppedBy("impact") + DroppedBy("open_items") + DroppedBy("learnings")
    /\ res.deduplicated_count >= 0
    /\ res.deduplicated_count <= IncomingAdditive
    /\ NoIncomingDuplicate => res.deduplicated_count = 0

\* An update-mode merge that dropped two Goals bullets and a commit already
\* in Technical Work.
C23_Witness ==
  /\ Updated
  /\ DroppedBy("goals") = 2
  /\ DroppedBy("technical") = 1
  /\ res.deduplicated_count = 3

(***************************************************************************)
(* Properties of _is_similar.                                              *)
(***************************************************************************)

\* _is_similar has returned.
SimilarDone == mode = "similar" /\ fnOut # <<>>

\* A text with its runs of whitespace collapsed to one space, none at the
\* ends, in lower case.
Collapsed(text) == Lower(JoinWords(SplitWords(text)))

\* The characters of the collapsed text.
Chars(text) == {CharAt(Collapsed(text), i) : i \in 1..Len(Collapsed(text))}

\* |chars(a) /\ chars(b)| / |chars(a) \/ chars(b)| >= t, t in hundredths.
Overlaps(a, b, t) ==
  Cardinality(Chars(a) \cap Chars(b)) * 100 >= t * Cardinality(Chars(a) \cup Chars(b))

\* C24: _is_similar(a, b, t), t from 0.0 to 1.0, is true exactly when the
\* collapsed, lowercased forms of a and b are equal, or both are non-empty
\* and the overlap of their character sets is at least t; it is reflexive
\* and symmetric, gives the same answer for any two texts with the same two
\* character sets, and finds an empty text similar only to a text that
\* collapses to empty.
C24_SimilarIsCharacterSetOverlap ==
  SimilarDone =>
    /\ fnOut[1]
         <=> \/ Collapsed(fnIn.text1) = Collapsed(fnIn.text2)
             \/ /\ Collapsed(fnIn.text1) # ""
                /\ Collapsed(fnIn.text2) # ""
                /\ Overlaps(fnIn.text1, fnIn.text2, fnIn.threshold)
    /\ _is_similar(fnIn.text1, fnIn.text1, fnIn.threshold)
    /\ fnOut[1] = _is_similar(fnIn.text2, fnIn.text1, fnIn.threshold)
    /\ \A c \in SimilarPool, d \in SimilarPool :
         (Chars(c) = Chars(fnIn.text1) /\ Chars(d) = Chars(fnIn.text2))
           => _is_similar(c, d, fnIn.threshold) = fnOut[1]
    /\ Collapsed(fnIn.text1) = "" => (fnOut[1] <=> Collapsed(fnIn.text2) = "")

\* Two texts that differ once collapsed and lowered, over the same seven
\* characters, found similar at threshold 1.0.
C24_Witness ==
  /\ SimilarDone
  /\ fnIn.text1 = "abcdefg"
  /\ fnIn.text2 = "gfedcba"
  /\ fnIn.threshold = 100
  /\ fnOut[1]

\* The number of bullet lines among lines.
BulletLineCount(lines) ==
  Cardinality({i \in 1..Len(lines) : IsBulletLine(Strip(lines[i]))})

\* C25: in a successful update-mode result new_bullets_added is not
\* negative, existing_bullets_preserved + new_bullets_added = bullets_added,
\* and bullets_added is the number of bullets of the date section after the
\* call.
C25_CountersConsistent ==
  Updated =>
    /\ res.new_bullets_added >= 0
    /\ res.existing_bullets_preserved + res.new_bullets_added = res.bullets_added
    /\ res.bullets_added = BulletLineCount(PostSectionLines)

(***************************************************************************)
(* Properties of sequences of calls.                                       *)
(***************************************************************************)

\* a is a subsequence of b: the elements of a are in b, in order.
RECURSIVE IsSubsequence(_, _)
IsSubsequence(a, b) ==
  IF a = <<>> THEN TRUE
  ELSE IF b = <<>> THEN FALSE
  ELSE IF a[1] = b[1] THEN IsSubsequence(Tail(a), Tail(b))
  ELSE IsSubsequence(a, Tail(b))

\* C26: a call that takes the non-update path removes, changes and reorders
\* no line: the lines of the file before the call (the text between line
\* ends, blank lines included) are a subsequence of the lines after it,
\* whatever calls came before.
C26_NonUpdateKeepsEveryLine ==
  NonUpdateCall => IsSubsequence(PreLines, PostLines)

\* A second call, on the non-update path, put its lines in the middle of a
\* file that the first call had written to, and the file is longer than it
\* was.
C26_Witness ==
  /\ ncalls = 2
  /\ NonUpdateCall
  /\ PreHeadingIdx > 0
  /\ PreNextHashLine <= Len(PreLines)
  /\ Len(PostLines) > Len(PreLines)
  /\ IsSubsequence(PreLines, PostLines)

\* A line that reads as the heading of a date.
IsDateHeading(line) == \E d \in Dates : Strip(line) = "## " \o d

\* The lines of a content, as the code splits it.
ContentLines(content) == SplitLines(NormalizeNewlines(content))

\* The lines of the Weekly Summary text of a content.
WeeklyLines(c) ==
  LET summary == ParseNewContent(c.content, c.preserve_lines).weekly_summary IN
  IF summary = <<>> THEN <<>> ELSE SplitLines(summary[1])

\* A call that may write a date heading as it is: with preserve_lines, a
\* line of its content is one; in update mode, a line of its Weekly Summary
\* text is one.
WritesHeadingAsIs(c) ==
  \/ /\ c.preserve_lines
     /\ \E i \in 1..Len(ContentLines(c.content)) :
          IsDateHeading(ContentLines(c.content)[i])
  \/ /\ c.update_mode
     /\ \E i \in 1..Len(WeeklyLines(c)) : IsDateHeading(WeeklyLines(c)[i])

\* The file has at most one heading line per date.
OneHeadingPerDate ==
  \A d \in Dates : HeadingCount(PostLines, "## " \o d) <= 1

\* C27 as stated: from a file with at most one heading line per date, any
\* sequence of successful calls leaves at most one heading line per date.
C27_OneHeadingPerDate == mode = "dates" => OneHeadingPerDate

\* C27, amended: the same for the sequences of calls none of which writes a
\* date heading as it is.
C27_OneHeadingPerDateUnlessWritten ==
  (mode = "dates" /\ \A i \in 1..Len(order) : ~WritesHeadingAsIs(order[i]))
    => OneHeadingPerDate

\* Two calls were made, none writing a date heading as it is, one of them
\* with a line that reads as a date heading, made a bullet; the file has
\* both dates.
C27_Witness ==
  /\ mode = "dates"
  /\ ncalls = 2
  /\ \A i \in 1..Len(order) : ~WritesHeadingAsIs(order[i])
  /\ \E i \in 1..Len(order) :
       \E k \in 1..Len(ContentLines(order[i].content)) :
         IsDateHeading(ContentLines(order[i].content)[k])
  /\ \A d \in Dates : HeadingCount(PostLines, "## " \o d) = 1

(***************************************************************************)
(* Reading back what an update-mode call wrote.                            *)
(***************************************************************************)

\* The merged sections the last call computed from the entry it read and
\* its content.
MergedByCall ==
  MergedSections(MergeAll(PreSections, CallSections), PreSections, CallSections)

\* Two summaries are the same text; no summary and an empty one are both no
\* text.
SameSummary(a, b) == (HasText(a) \/ HasText(b)) => a = b

\* read_date_entry on the written file returns the merged sections.
ReadBackIsMerged ==
  /\ \A k \in 1..Len(BulletKeys) :
       PostSections[BulletKeys[k]] = MergedByCall[BulletKeys[k]]
  /\ SameSummary(PostSections.weekly_summary, MergedByCall.weekly_summary)

\* The merged Weekly Summary text has a line that reads as a level-2
\* heading.
SummaryHasLevel2Heading ==
  /\ HasText(MergedByCall.weekly_summary)
  /\ \E i \in 1..Len(SplitLines(MergedByCall.weekly_summary[1])) :
       IsLevel2Heading(SplitLines(MergedByCall.weekly_summary[1])[i])

\* C28 as stated: after a successful update-mode call for a date,
\* read_date_entry for that date on the written file returns the merged
\* sections the call computed: the seven bullet lists in the same order and
\* the Weekly Summary text.
C28_ReadBackIsMerged == Updated => ReadBackIsMerged

\* C28, amended: the same when no line of the merged Weekly Summary text
\* reads as a level-2 heading.
C28_ReadBackIsMergedUnlessHeading ==
  (Updated /\ ~SummaryHasLevel2Heading) => ReadBackIsMerged

\* An update-mode call merged bullets and a Weekly Summary text into a
\* section that had a summary, and all of it reads back.
C28_Witness ==
  /\ Updated
  /\ ~SummaryHasLevel2Heading
  /\ HasText(PreSections.weekly_summary)
  /\ HasText(PostSections.weekly_summary)
  /\ \E k \in 1..Len(BulletKeys) : PostSections[BulletKeys[k]] # <<>>
  /\ ReadBackIsMerged

\* The text of a content line as a bullet would carry it.
BulletTextOf(line) ==
  IF IsBulletLine(Strip(line)) THEN Strip(DropFirst(Strip(line), 2)) ELSE Strip(line)

\* A bullet is a duplicate of one that the section of the call's date holds
\* after the call: by commit hash in Technical Work, by similarity elsewhere.
DuplicateIn(key, bullet) ==
  \E e \in Range(PostSections[key]) :
    IF key = "technical"
    THEN /\ _extract_commit_hash(bullet) # <<>>
         /\ _extract_commit_hash(e) = _extract_commit_hash(bullet)
    ELSE _is_similar(bullet, e, DefaultThreshold)

\* A content line is in the section of the call's date after the call: as a
\* line of it, or as the text of one of its bullets.
InSectionAfter(line) ==
  \/ Strip(line) \in {Strip(PostSectionLines[j]) : j \in 1..Len(PostSectionLines)}
  \/ Strip(line) \in BulletTexts(PostSectionLines)
  \/ BulletTextOf(line) \in BulletTexts(PostSectionLines)

\* A content line was dropped as a duplicate of a bullet of the section, and
\* the call counted duplicates.
DroppedAsCountedDuplicate(line) ==
  /\ res.deduplicated_count > 0
  /\ \E k \in 1..Len(BulletKeys) : DuplicateIn(BulletKeys[k], BulletTextOf(line))

\* The non-blank content lines of the last call that are not the heading of
\* a recognised subsection.
CallTextLines ==
  {CallLines[i] : i \in {j \in 1..Len(CallLines) : matched_section(CallLines[j]) = ""}}

\* C29 as stated: whenever append_to_markdown returns ok, every non-blank
\* line of content (the headings of recognised subsections aside) is in the
\* section of the call's date in the written document, or was dropped as a
\* duplicate of a bullet that is there and deduplicated_count counts it.
C29_NoContentLineDiscarded ==
  (ncalls > 0 /\ Succeeded(res)) =>
    \A line \in CallTextLines :
      InSectionAfter(line) \/ DroppedAsCountedDuplicate(line)

\* The bullets that merge_date_sections captured from the content and that
\* the section does not hold after the call, by subsection and position.
CapturedAndAbsent ==
  {p \in UNION {{<<k, i>> : i \in 1..Len(CallSections[BulletKeys[k]])} :
                  k \in 1..Len(BulletKeys)} :
     CallSections[BulletKeys[p[1]]][p[2]] \notin Range(PostSections[BulletKeys[p[1]]])}

\* The Weekly Summary text of the content has a line that reads as a
\* level-2 heading.
CallSummaryHasLevel2Heading ==
  /\ HasText(CallSections.weekly_summary)
  /\ \E i \in 1..Len(SplitLines(CallSections.weekly_summary[1])) :
       IsLevel2Heading(SplitLines(CallSections.weekly_summary[1])[i])

\* Update path: every captured bullet is a bullet of its subsection after
\* the call or a duplicate of one that is, the absent ones are no more than
\* deduplicated_count, and the Weekly Summary text is written.
CapturedKept ==
  /\ \A p \in CapturedAndAbsent :
       /\ BulletKeys[p[1]] # "metrics"
       /\ DuplicateIn(BulletKeys[p[1]], CallSections[BulletKeys[p[1]]][p[2]])
  /\ Cardinality(CapturedAndAbsent) <= res.deduplicated_count
  /\ HasText(CallSections.weekly_summary) =>
       /\ Range(SplitLines(CallSections.weekly_summary[1])) \subseteq Range(PostLines)
       /\ ~CallSummaryHasLevel2Heading
            => PostSections.weekly_summary = CallSections.weekly_summary

\* A content line written as it is reads as a level-2 heading.
WritesLevel2HeadingAsIs ==
  /\ call.preserve_lines
  /\ \E i \in 1..Len(CallLines) : IsLevel2Heading(CallLines[i])

\* Non-update path: every non-blank content line is a line of the written
\* document, in the section of the call's date unless a line written as it
\* is reads as a level-2 heading.
WrittenLinesKept ==
  \A i \in 1..Len(CallLines) :
    /\ ExpectedLine(CallLines[i]) \in Range(PostLines)
    /\ ~WritesLevel2HeadingAsIs => ExpectedLine(CallLines[i]) \in Range(PostSectionLines)

\* C29, amended: on the non-update path every non-blank content line is
\* written; on the update path every bullet captured from a recognised
\* subsection of the content is in that subsection after the call or was
\* dropped as a counted duplicate of a bullet that is, and the Weekly
\* Summary text is written.  The other lines are discarded without notice.
C29_CapturedLinesKept ==
  (ncalls > 0 /\ Succeeded(res)) =>
    IF res.update_mode_used THEN CapturedKept ELSE WrittenLinesKept

\* An update-mode call dropped a captured bullet as a counted duplicate of a
\* bullet of the section, kept another, and kept all it had to.
C29_Witness ==
  /\ Updated
  /\ CapturedAndAbsent # {}
  /\ \E k \in 1..Len(BulletKeys) :
       \E i \in 1..Len(CallSections[BulletKeys[k]]) : <<k, i>> \notin CapturedAndAbsent
  /\ CapturedKept

\* The last call was rejected for its date_str.
RejectedForDate == ncalls > 0 /\ res = [error |-> "date_str must be in YYYY-MM-DD format"]

\* C30: a call that is rejected for an invalid date_str has no effect on the
\* filesystem: the target file is not written and its missing parent
\* directories are not created.
C30_InvalidDateNoSideEffect == RejectedForDate => FilesystemUnchanged

====
